---- MODULE Spec2Model ----
(***************************************************************************)
(* Multi-character voice chatbot: the two multi-character servers          *)
(* (src/unnamed/part_000, "variant A", and the second server of            *)
(* src/unnamed/part_001, "variant B") and the browser client               *)
(* (src/public/client.js).                                                 *)
(*                                                                         *)
(* The server keeps one message array per persona in the object            *)
(* chatHistories.  Variant B keeps a reference to the array across its     *)
(* await, and /api/clear-history replaces the array by a fresh one, so     *)
(* arrays have an identity: chatHistories[k].items is the array the        *)
(* property k holds now, and detached[c] is an array that was replaced     *)
(* while handlers still refer to it (c is the lowest slot among them).     *)
(***************************************************************************)
EXTENDS Naturals, Integers, Sequences, FiniteSets, TLC

(***************************************************************************)
(* Bounds of the model.                                                    *)
(***************************************************************************)
\* handlers of one endpoint that may be awaiting their collaborator at
\* once; in the client, sendToServer calls that may be running at once
MaxInFlight == 2
\* getUserMedia requests that may be pending at once
MaxMicPending == 1
MaxMicRequests == 2
\* play() promises that may be unsettled at once
MaxPromises == 2
\* calls made to one collaborator in one run (caps the growth of the
\* histories)
MaxCalls == 2
\* under ClientSpec: turns of the client whose /api/transcribe request
\* reaches the transcription call
MaxTranscriptions == 1

(***************************************************************************)
(* Values.                                                                 *)
(***************************************************************************)
Personas == {"joey", "dwight", "dhruv"}

\* A property name every object literal inherits from Object.prototype:
\* characters["constructor"] and chatHistories["constructor"] are truthy
\* although "constructor" is no own key of either literal.
ProtoKeys == {"constructor"}

\* A name that is neither an own key nor inherited.
OtherKeys == {"unknown"}

\* A missing (undefined) or empty request field; both are falsy.
Missing == ""

Keys == Personas \cup ProtoKeys \cup OtherKeys

UserTexts == {"hello", "bye"}
ReplyTexts == {"how you doin", "fact"}

\* Recorded audio, and what the transcription service makes of it
Audios == {"audioHello", "audioBye"}
NoFile == "no file"
Whisper(audio) == IF audio = "audioHello" THEN "hello" ELSE "bye"

\* What the user of the client says in a turn: "hello" first, "bye" once a
\* transcription call has been made; and what the generation service
\* answers to it
Spoken(n) == IF n = 0 THEN "audioHello" ELSE "audioBye"
ReplyTo(userMessage) == IF userMessage = "hello" THEN "how you doin" ELSE "fact"

\* Base64 text of the synthesized speech
TtsAudios == {"bXAz"}

RSlots == 1..MaxInFlight

Msg(role, content) == [role |-> role, content |-> content]

\* Values of a property of chatHistories
ArrayOf(items) == [kind |-> "array", items |-> items]
Inherited == [kind |-> "inherited", items |-> <<>>]
Undefined == [kind |-> "undefined", items |-> <<>>]

\* The characters object as the module defines it, and the order of its keys
Registry ==
  [k \in Personas |->
     CASE k = "joey" -> [name |-> "Joey Tribbiani", source |-> "Friends",
                         systemPrompt |-> "You are Joey Tribbiani",
                         greeting |-> "Hey there! How you doin'?"]
       [] k = "dwight" -> [name |-> "Dwight K. Schrute", source |-> "The Office",
                           systemPrompt |-> "You are Dwight K. Schrute",
                           greeting |-> "Attention! This is Dwight Kurt Schrute III."]
       [] k = "dhruv" -> [name |-> "Dhruv Rathee", source |-> "YouTuber / Social Commentator",
                          systemPrompt |-> "You are Dhruv Rathee",
                          greeting |-> "Namaste! I'm Dhruv Rathee."]]

ObjectKeys == <<"joey", "dwight", "dhruv">>

VARIABLES
  variant,          \* "A": src/unnamed/part_000, "B": src/unnamed/part_001 (second server)
  OPENAI_API_KEY,   \* TRUE iff process.env.OPENAI_API_KEY is set
  characters,       \* the persona registry: the server's characters object
  chatHistories,    \* the server's chatHistories object
  detached,         \* arrays no longer in chatHistories that a handler still refers to
  respondReq,       \* the /api/respond handlers that await their generation call
  lastRes,          \* the request answered last, and its response
  genCalls,         \* generation calls made so far
  nSucceeded,       \* per key: respond requests whose generation succeeded since the last clear
  lastGenFailed,    \* per key: the most recent respond that reached generation failed there
  transcribeReq,    \* the /api/transcribe handlers that await their transcription call
  files,            \* the temporary audio files: path -> content
  orphanFiles,      \* variant B: temporary files no handler refers to any more
  sttCalls,         \* transcription calls made so far
  ttsReq,           \* the /api/tts handlers that await their synthesis call
  ttsCalls          \* synthesis calls made so far

cfgVars == <<variant, OPENAI_API_KEY, characters>>
storeVars == <<chatHistories, detached, respondReq, genCalls, nSucceeded, lastGenFailed>>
sttVars == <<transcribeReq, files, orphanFiles, sttCalls>>
ttsVars == <<ttsReq, ttsCalls>>
serverVars == <<cfgVars, storeVars, sttVars, ttsVars, lastRes>>

\* The browser client (src/public/client.js)
VARIABLES
  currentCharacter,           \* the selected persona
  clientHistories,            \* the client's chatHistories: persona -> messages shown
  mediaRecorder,              \* the stored recorder (NoRecorder: undefined)
  recorderState,              \* recorder -> "inactive" | "recording"
  micPending,                 \* getUserMedia requests not yet answered
  pendingStops,               \* recorder stop events whose onstop has not run yet
  recordBtnHidden,            \* recordBtn has class hidden
  stopBtnHidden,              \* stopBtn has class hidden
  statusHidden,               \* statusBox has class hidden
  statusText,                 \* statusText.textContent
  lastAlert,                  \* the text of the last alert()
  pipes,                      \* the running sendToServer calls
  currentlyPlayingIndex,      \* NullIndex: null
  currentlyPlayingCharacter,  \* Missing: null
  audioPlayer,                \* the audio element: what is loaded, paused, ended
  playPromises                \* the promises of audioPlayer.play() not yet settled

recVars == <<mediaRecorder, recorderState, micPending, pendingStops, recordBtnHidden,
             stopBtnHidden, lastAlert>>
statusVars == <<statusHidden, statusText>>
playVars == <<currentlyPlayingIndex, currentlyPlayingCharacter, audioPlayer, playPromises>>
clientVars == <<currentCharacter, clientHistories, recVars, statusVars, pipes, playVars>>

vars == <<serverVars, clientVars>>

(***************************************************************************)
(* The persona registry `characters` and the store `chatHistories`.        *)
(***************************************************************************)
\* characters[k] is truthy: for the own keys and for the inherited names
CharactersTruthy(k) == k \in DOMAIN characters \cup ProtoKeys

\* characters[k].systemPrompt (undefined when characters[k] is inherited)
SystemPromptOf(k) == IF k \in DOMAIN characters THEN characters[k].systemPrompt
                     ELSE "undefined"

\* chatHistories[k] is truthy
HistoryTruthy(k) == k # Missing /\ chatHistories[k].kind # "undefined"

\* chatHistories[k] is an array
IsArray(k) == chatHistories[k].kind = "array"

\* The content of chatHistories[k]
Hist(k) == chatHistories[k].items

\* No handler in the slot
FreeReq == [pc |-> "free", userMessage |-> Missing, character |-> Missing,
            messages |-> <<>>, history |-> "none", cell |-> 0,
            histAtArrival |-> <<>>, overlapped |-> FALSE]

\* No request answered yet
NoRes == [endpoint |-> "none", userMessage |-> Missing, character |-> Missing,
          status |-> 0, error |-> "", response |-> "", called |-> FALSE,
          transcription |-> "", audio |-> "", tempFileLeft |-> FALSE,
          histAtArrival |-> <<>>, overlapped |-> FALSE, charList |-> <<>>]

\* res.status(status).json({error}) of a request that made no collaborator call
Answer(endpoint, um, ch, status, error) ==
  [NoRes EXCEPT !.endpoint = endpoint, !.userMessage = um, !.character = ch,
                !.status = status, !.error = error]

\* The slot a new handler takes
NewSlot(r) == /\ respondReq[r].pc = "free"
              /\ \A s \in RSlots : s < r => respondReq[s].pc # "free"

\* Another respond handler for key k awaits its generation call
OthersAwaiting(r, k) == \E s \in RSlots \ {r} :
                          respondReq[s].pc = "awaiting" /\ respondReq[s].character = k

\* Every awaiting handler for key k is marked as overlapped by another request
MarkOverlap(rq, k) == [s \in RSlots |->
                        IF rq[s].pc = "awaiting" /\ rq[s].character = k
                          THEN [rq[s] EXCEPT !.overlapped = TRUE] ELSE rq[s]]

\* The handlers whose `history` is the array chatHistories[k] holds
LiveHolders(k) == {s \in RSlots : /\ respondReq[s].pc = "awaiting"
                                  /\ respondReq[s].character = k
                                  /\ respondReq[s].history = "live"}

\* The handlers other than r whose `history` is the detached array c
CellHolders(r, c) == {s \in RSlots \ {r} : /\ respondReq[s].pc = "awaiting"
                                           /\ respondReq[s].history = "detached"
                                           /\ respondReq[s].cell = c}

Min(S) == CHOOSE x \in S : \A y \in S : x <= y

\* null in currentlyPlayingIndex
NullIndex == -1

\* mediaRecorder is undefined
NoRecorder == 0

\* The MediaRecorder objects requestMicrophone can create
Recorders == 1..MaxMicRequests

\* What showStatus wrote
Status(kind, detail) == [kind |-> kind, detail |-> detail]

\* What a fetch of a sendToServer call gave
Pending == [state |-> "pending", ok |-> FALSE, transcription |-> "", response |-> "",
            audio |-> ""]
NetworkError == [Pending EXCEPT !.state = "rejected"]
Delivered(res) == [state |-> "answered", ok |-> res.status \in 200..299,
                   transcription |-> res.transcription, response |-> res.response,
                   audio |-> res.audio]

\* No sendToServer call in the slot
FreePipe == [pc |-> "free", res |-> Pending, response |-> ""]

\* A message of the client's history
Item(sender, message, audio) == [sender |-> sender, message |-> message, audio |-> audio]

\* Temporary file paths: 0 is variant A's temp_audio.wav; variant B's
\* temp_audio_<Date.now()>.wav is named after the lowest slot among the
\* handlers that arrived in that millisecond
Paths == 0..MaxInFlight

FreeTranscribe == [pc |-> "free", path |-> 0, sent |-> NoFile]

FreeTts == [pc |-> "free", text |-> Missing, character |-> Missing]

Init ==
  /\ variant \in {"A", "B"}
  /\ OPENAI_API_KEY \in BOOLEAN
  /\ characters = Registry
  /\ chatHistories = [k \in Keys |->
                        IF k \in Personas THEN ArrayOf(<<>>)
                        ELSE IF k \in ProtoKeys THEN Inherited ELSE Undefined]
  /\ detached = [c \in RSlots |-> <<>>]
  /\ respondReq = [r \in RSlots |-> FreeReq]
  /\ lastRes = NoRes
  /\ genCalls = 0
  /\ nSucceeded = [k \in Keys |-> 0]
  /\ lastGenFailed = [k \in Keys |-> FALSE]
  /\ transcribeReq = [t \in RSlots |-> FreeTranscribe]
  /\ files = [p \in Paths |-> NoFile]
  /\ orphanFiles = 0
  /\ sttCalls = 0
  /\ ttsReq = [t \in RSlots |-> FreeTts]
  /\ ttsCalls = 0
  /\ currentCharacter = "joey"
  /\ clientHistories = [k \in Personas |-> <<>>]
  /\ mediaRecorder = NoRecorder
  /\ recorderState = [m \in Recorders |-> "inactive"]
  /\ micPending = 0
  /\ pendingStops = 0
  /\ recordBtnHidden = FALSE
  /\ stopBtnHidden = TRUE
  /\ statusHidden = TRUE
  /\ statusText = Status("", "")
  /\ lastAlert = ""
  /\ pipes = [i \in RSlots |-> FreePipe]
  /\ currentlyPlayingIndex = NullIndex
  /\ currentlyPlayingCharacter = Missing
  /\ audioPlayer = [character |-> Missing, index |-> NullIndex, paused |-> TRUE,
                    ended |-> FALSE]
  /\ playPromises = <<>>

(***************************************************************************)
(* POST /api/respond, up to its await.                                     *)
(***************************************************************************)
\* variant A: validation, then messages = [system, ...chatHistory, user]
RespondArriveA(r, um, ch) ==
  /\ variant = "A"
  /\ respondReq[r].pc = "free"
  /\ IF um = Missing \/ ch = Missing
       THEN /\ lastRes' = Answer("respond", um, ch, 400, "Missing userMessage or character")
            /\ UNCHANGED <<respondReq, genCalls>>
     ELSE IF ~CharactersTruthy(ch)
       THEN /\ lastRes' = Answer("respond", um, ch, 400, "Invalid character")
            /\ UNCHANGED <<respondReq, genCalls>>
     ELSE IF HistoryTruthy(ch) /\ ~IsArray(ch)
       \* spreading a value that is not iterable throws: caught, 500
       THEN /\ lastRes' = Answer("respond", um, ch, 500, "Response generation failed")
            /\ UNCHANGED <<respondReq, genCalls>>
     ELSE /\ genCalls < MaxCalls
          /\ respondReq' = [MarkOverlap(respondReq, ch) EXCEPT ![r] =
               [FreeReq EXCEPT !.pc = "awaiting", !.userMessage = um, !.character = ch,
                  !.messages = <<Msg("system", SystemPromptOf(ch))>> \o Hist(ch)
                                 \o <<Msg("user", um)>>,
                  !.histAtArrival = Hist(ch),
                  !.overlapped = OthersAwaiting(r, ch)]]
          /\ genCalls' = genCalls + 1
          /\ UNCHANGED lastRes
  /\ UNCHANGED <<chatHistories, detached, nSucceeded, lastGenFailed>>

\* RespondArriveB with the message list built before history.push(user)
RespondArriveB_SpreadBeforePush(r, um, ch) ==
  /\ variant = "B"
  /\ respondReq[r].pc = "free"
  /\ um # Missing /\ ch # Missing /\ CharactersTruthy(ch) /\ OPENAI_API_KEY /\ IsArray(ch)
  /\ genCalls < MaxCalls
  /\ chatHistories' = [chatHistories EXCEPT ![ch] = ArrayOf(Append(Hist(ch), Msg("user", um)))]
  /\ respondReq' = [MarkOverlap(respondReq, ch) EXCEPT ![r] =
       [FreeReq EXCEPT !.pc = "awaiting", !.userMessage = um, !.character = ch,
          !.history = "live",
          !.messages = <<Msg("system", SystemPromptOf(ch))>> \o Hist(ch),
          !.histAtArrival = Hist(ch),
          !.overlapped = OthersAwaiting(r, ch)]]
  /\ genCalls' = genCalls + 1
  /\ UNCHANGED <<lastRes, detached, nSucceeded, lastGenFailed>>

\* variant B: validation, credential check, history.push(user),
\* messages = [system, ...history]
RespondArriveB(r, um, ch) ==
  /\ variant = "B"
  /\ respondReq[r].pc = "free"
  /\ IF um = Missing \/ ch = Missing
       THEN /\ lastRes' = Answer("respond", um, ch, 400, "Missing userMessage or character")
            /\ UNCHANGED <<respondReq, genCalls, chatHistories>>
     ELSE IF ~CharactersTruthy(ch)
       THEN /\ lastRes' = Answer("respond", um, ch, 400, "Invalid character")
            /\ UNCHANGED <<respondReq, genCalls, chatHistories>>
     ELSE IF ~OPENAI_API_KEY
       THEN /\ lastRes' = Answer("respond", um, ch, 500,
                                 "Server configuration error: Missing API key")
            /\ UNCHANGED <<respondReq, genCalls, chatHistories>>
     ELSE IF ~IsArray(ch)
       \* history.push is not a function: caught, 500
       THEN /\ lastRes' = Answer("respond", um, ch, 500, "Response generation failed")
            /\ UNCHANGED <<respondReq, genCalls, chatHistories>>
     ELSE /\ genCalls < MaxCalls
          /\ LET pushed == Append(Hist(ch), Msg("user", um))
             IN /\ chatHistories' = [chatHistories EXCEPT ![ch] = ArrayOf(pushed)]
                /\ respondReq' = [MarkOverlap(respondReq, ch) EXCEPT ![r] =
                     [FreeReq EXCEPT !.pc = "awaiting", !.userMessage = um, !.character = ch,
                        !.history = "live",
                        !.messages = <<Msg("system", SystemPromptOf(ch))>> \o pushed,
                        !.histAtArrival = Hist(ch),
                        !.overlapped = OthersAwaiting(r, ch)]]
          /\ genCalls' = genCalls + 1
          /\ UNCHANGED lastRes
  /\ UNCHANGED <<detached, nSucceeded, lastGenFailed>>

(***************************************************************************)
(* POST /api/respond, after its await.                                     *)
(***************************************************************************)
\* res.json({response}) of the handler in slot r
Replied(r, reply) ==
  [NoRes EXCEPT !.endpoint = "respond", !.userMessage = respondReq[r].userMessage,
                !.character = respondReq[r].character, !.status = 200,
                !.response = reply, !.called = TRUE,
                !.histAtArrival = respondReq[r].histAtArrival,
                !.overlapped = respondReq[r].overlapped]

\* res.status(500) of the handler in slot r, whose generation call threw
Failed(r) ==
  [NoRes EXCEPT !.endpoint = "respond", !.userMessage = respondReq[r].userMessage,
                !.character = respondReq[r].character, !.status = 500,
                !.error = "Response generation failed", !.called = TRUE,
                !.histAtArrival = respondReq[r].histAtArrival,
                !.overlapped = respondReq[r].overlapped]

\* The handler in slot r ends and drops its reference: a detached array is
\* renamed after its lowest remaining holder, or is garbage
Release(r, det) ==
  LET c == respondReq[r].cell
      rest == CellHolders(r, c)
  IN IF respondReq[r].history # "detached"
       THEN /\ respondReq' = [respondReq EXCEPT ![r] = FreeReq]
            /\ detached' = det
     ELSE IF rest = {}
       THEN /\ respondReq' = [respondReq EXCEPT ![r] = FreeReq]
            /\ detached' = [det EXCEPT ![c] = <<>>]
     ELSE /\ respondReq' = [s \in RSlots |->
                              IF s = r THEN FreeReq
                              ELSE IF s \in rest THEN [respondReq[s] EXCEPT !.cell = Min(rest)]
                              ELSE respondReq[s]]
          /\ detached' = [x \in RSlots |-> IF x = Min(rest) THEN det[c]
                                           ELSE IF x = c THEN <<>> ELSE det[x]]

\* RespondSucceedA with the two pushes in the other order
RespondSucceedA_AssistantFirst(r, reply) ==
  /\ variant = "A"
  /\ respondReq[r].pc = "awaiting"
  /\ OPENAI_API_KEY
  /\ LET ch == respondReq[r].character
     IN /\ chatHistories' = [chatHistories EXCEPT ![ch] =
                               ArrayOf(Hist(ch) \o <<Msg("assistant", reply),
                                                      Msg("user", respondReq[r].userMessage)>>)]
        /\ nSucceeded' = [nSucceeded EXCEPT ![ch] = @ + 1]
        /\ lastGenFailed' = [lastGenFailed EXCEPT ![ch] = FALSE]
  /\ lastRes' = Replied(r, reply)
  /\ Release(r, detached)
  /\ UNCHANGED genCalls

\* variant A, generation succeeded: push user and assistant onto
\* chatHistories[character], looked up again
RespondSucceedA(r, reply) ==
  /\ variant = "A"
  /\ respondReq[r].pc = "awaiting"
  /\ OPENAI_API_KEY
  /\ LET ch == respondReq[r].character
     IN /\ chatHistories' = [chatHistories EXCEPT ![ch] =
                               ArrayOf(Hist(ch) \o <<Msg("user", respondReq[r].userMessage),
                                                      Msg("assistant", reply)>>)]
        /\ nSucceeded' = [nSucceeded EXCEPT ![ch] = @ + 1]
        /\ lastGenFailed' = [lastGenFailed EXCEPT ![ch] = FALSE]
  /\ lastRes' = Replied(r, reply)
  /\ Release(r, detached)
  /\ UNCHANGED genCalls

\* RespondSucceedB that pushes the user message as well, as variant A does
RespondSucceedB_PushesPair(r, reply) ==
  /\ variant = "B"
  /\ respondReq[r].pc = "awaiting"
  /\ LET ch == respondReq[r].character
         c  == respondReq[r].cell
         pair == <<Msg("user", respondReq[r].userMessage), Msg("assistant", reply)>>
     IN /\ IF respondReq[r].history = "live"
             THEN /\ chatHistories' = [chatHistories EXCEPT ![ch] = ArrayOf(Hist(ch) \o pair)]
                  /\ Release(r, detached)
             ELSE /\ Release(r, [detached EXCEPT ![c] = @ \o pair])
                  /\ UNCHANGED chatHistories
        /\ nSucceeded' = [nSucceeded EXCEPT ![ch] = @ + 1]
        /\ lastGenFailed' = [lastGenFailed EXCEPT ![ch] = FALSE]
  /\ lastRes' = Replied(r, reply)
  /\ UNCHANGED genCalls

\* variant B, generation succeeded: history.push(assistant) on the array the
\* handler took before its await
RespondSucceedB(r, reply) ==
  /\ variant = "B"
  /\ respondReq[r].pc = "awaiting"
  /\ LET ch == respondReq[r].character
         c  == respondReq[r].cell
     IN /\ IF respondReq[r].history = "live"
             THEN /\ chatHistories' = [chatHistories EXCEPT ![ch] =
                                         ArrayOf(Append(Hist(ch), Msg("assistant", reply)))]
                  /\ Release(r, detached)
             ELSE /\ Release(r, [detached EXCEPT ![c] = Append(@, Msg("assistant", reply))])
                  /\ UNCHANGED chatHistories
        /\ nSucceeded' = [nSucceeded EXCEPT ![ch] = @ + 1]
        /\ lastGenFailed' = [lastGenFailed EXCEPT ![ch] = FALSE]
  /\ lastRes' = Replied(r, reply)
  /\ UNCHANGED genCalls

\* RespondFail that calls the generation service again instead of answering
RespondFail_Retries(r) ==
  /\ respondReq[r].pc = "awaiting"
  /\ genCalls < MaxCalls
  /\ genCalls' = genCalls + 1
  /\ UNCHANGED <<respondReq, detached, lastRes, lastGenFailed, chatHistories, nSucceeded>>

\* RespondFail that leaves the user message of the failed request in the
\* history
RespondFail_KeepsUser(r) ==
  /\ respondReq[r].pc = "awaiting"
  /\ lastRes' = Failed(r)
  /\ Release(r, detached)
  /\ lastGenFailed' = [lastGenFailed EXCEPT ![respondReq[r].character] = TRUE]
  /\ LET ch == respondReq[r].character
     IN chatHistories' =
          IF IsArray(ch)
            THEN [chatHistories EXCEPT ![ch] =
                    ArrayOf(Append(Hist(ch), Msg("user", respondReq[r].userMessage)))]
            ELSE chatHistories
  /\ UNCHANGED <<genCalls, nSucceeded>>

\* either variant, the generation call threw: caught, 500, nothing pushed
RespondFail(r) ==
  /\ respondReq[r].pc = "awaiting"
  /\ lastRes' = Failed(r)
  /\ Release(r, detached)
  /\ lastGenFailed' = [lastGenFailed EXCEPT ![respondReq[r].character] = TRUE]
  /\ UNCHANGED <<chatHistories, genCalls, nSucceeded>>

(***************************************************************************)
(* POST /api/clear-history.                                                *)
(***************************************************************************)
\* variant A checks characters[character], variant B chatHistories[character]
ClearValid(ch) == IF variant = "A" THEN CharactersTruthy(ch)
                  ELSE ch # Missing /\ HistoryTruthy(ch)

\* ClearHistory that empties the history of every persona
ClearHistory_ClearsAll(ch) ==
  /\ ClearValid(ch)
  /\ chatHistories' = [k \in Keys |-> IF k \in Personas \/ k = ch THEN ArrayOf(<<>>)
                                      ELSE chatHistories[k]]
  /\ lastRes' = Answer("clear", Missing, ch, 200, "")
  /\ nSucceeded' = [k \in Keys |-> 0]
  /\ lastGenFailed' = [k \in Keys |-> FALSE]
  /\ UNCHANGED <<respondReq, detached, genCalls>>

\* ClearHistory that answers without replacing the array
ClearHistory_KeepsArray(ch) ==
  /\ IF ClearValid(ch)
       THEN lastRes' = Answer("clear", Missing, ch, 200, "")
       ELSE lastRes' = Answer("clear", Missing, ch, 400, "Invalid character")
  /\ UNCHANGED <<chatHistories, respondReq, detached, nSucceeded, lastGenFailed, genCalls>>

\* chatHistories[character] = []: the handlers that hold the old array keep it
ClearHistory(ch) ==
  /\ IF ClearValid(ch)
       THEN /\ chatHistories' = [chatHistories EXCEPT ![ch] = ArrayOf(<<>>)]
            /\ IF LiveHolders(ch) = {}
                 THEN /\ respondReq' = MarkOverlap(respondReq, ch)
                      /\ UNCHANGED detached
                 ELSE LET c == Min(LiveHolders(ch))
                      IN /\ respondReq' = [s \in RSlots |->
                              IF s \in LiveHolders(ch)
                                THEN [respondReq[s] EXCEPT !.history = "detached", !.cell = c,
                                                           !.overlapped = TRUE]
                                ELSE respondReq[s]]
                         /\ detached' = [detached EXCEPT ![c] = Hist(ch)]
            /\ lastRes' = Answer("clear", Missing, ch, 200, "")
            /\ nSucceeded' = [nSucceeded EXCEPT ![ch] = 0]
            /\ lastGenFailed' = [lastGenFailed EXCEPT ![ch] = FALSE]
       ELSE /\ lastRes' = Answer("clear", Missing, ch, 400, "Invalid character")
            /\ UNCHANGED <<chatHistories, respondReq, detached, nSucceeded, lastGenFailed>>
  /\ UNCHANGED genCalls

(***************************************************************************)
(* POST /api/transcribe.                                                   *)
(***************************************************************************)
\* The handlers other than t whose temporary file is p
PathHolders(t, p) == {s \in RSlots \ {t} : /\ transcribeReq[s].pc # "free"
                                           /\ transcribeReq[s].path = p}

\* The paths Date.now() can give handler t in variant B: a new one, or the
\* one of a handler that arrived in the same millisecond
StampChoices(t) == {t} \cup {transcribeReq[s].path :
                               s \in {x \in RSlots \ {t} : transcribeReq[x].pc # "free"}}

\* Up to its await: req.file check, credential check (variant B),
\* writeFileSync(tempFilePath), transcriptions.create(createReadStream(...))
TranscribeArrive(t, file, stamp) ==
  /\ transcribeReq[t].pc = "free"
  /\ IF file = NoFile
       THEN /\ lastRes' = Answer("transcribe", Missing, Missing, 400, "No audio file provided")
            /\ UNCHANGED <<transcribeReq, files, sttCalls>>
     ELSE IF variant = "B" /\ ~OPENAI_API_KEY
       THEN /\ lastRes' = Answer("transcribe", Missing, Missing, 500,
                                 "Server configuration error: Missing API key")
            /\ UNCHANGED <<transcribeReq, files, sttCalls>>
     ELSE /\ sttCalls < MaxCalls
          /\ sttCalls' = sttCalls + 1
          /\ UNCHANGED lastRes
          /\ IF variant = "A"
               THEN /\ stamp = 0
                    /\ files' = [files EXCEPT ![0] = file]
                    /\ transcribeReq' = [transcribeReq EXCEPT ![t] =
                                           [pc |-> "opening", path |-> 0, sent |-> NoFile]]
               ELSE /\ stamp \in StampChoices(t)
                    /\ LET name == IF t < stamp THEN t ELSE stamp
                       IN /\ files' = [q \in Paths |-> IF q = name THEN file
                                                       ELSE IF q = stamp THEN NoFile
                                                       ELSE files[q]]
                          /\ transcribeReq' = [s \in RSlots |->
                               IF s = t THEN [pc |-> "opening", path |-> name, sent |-> NoFile]
                               ELSE IF s \in PathHolders(t, stamp)
                                 THEN [transcribeReq[s] EXCEPT !.path = name]
                               ELSE transcribeReq[s]]
  /\ UNCHANGED orphanFiles

\* Handler t ends and forgets its path; fl is the file system it leaves
ReleaseFile(t, fl) ==
  LET p == transcribeReq[t].path
      rest == PathHolders(t, p)
  IN IF variant = "A"
       THEN /\ transcribeReq' = [transcribeReq EXCEPT ![t] = FreeTranscribe]
            /\ files' = fl
            /\ UNCHANGED orphanFiles
     ELSE IF rest = {}
       THEN /\ transcribeReq' = [transcribeReq EXCEPT ![t] = FreeTranscribe]
            /\ files' = [fl EXCEPT ![p] = NoFile]
            /\ orphanFiles' = IF fl[p] # NoFile THEN orphanFiles + 1 ELSE orphanFiles
     ELSE /\ transcribeReq' = [s \in RSlots |->
                                 IF s = t THEN FreeTranscribe
                                 ELSE IF s \in rest
                                   THEN [transcribeReq[s] EXCEPT !.path = Min(rest)]
                                 ELSE transcribeReq[s]]
          /\ files' = [q \in Paths |-> IF q = Min(rest) THEN fl[p]
                                       ELSE IF q = p THEN NoFile ELSE fl[q]]
          /\ UNCHANGED orphanFiles

\* res.status(500) of handler t, whose try block threw
TranscribeFailed(t) ==
  [NoRes EXCEPT !.endpoint = "transcribe", !.status = 500, !.error = "Transcription failed",
                !.called = TRUE, !.tempFileLeft = files[transcribeReq[t].path] # NoFile]

\* The read stream opens the temporary file and reads it: what is in the
\* file then is what the transcription service gets; no file, and the
\* call rejects
TranscribeRead(t) ==
  /\ transcribeReq[t].pc = "opening"
  /\ IF files[transcribeReq[t].path] = NoFile
       THEN /\ lastRes' = TranscribeFailed(t)
            /\ ReleaseFile(t, files)
       ELSE /\ transcribeReq' = [transcribeReq EXCEPT ![t].pc = "awaiting",
                                    ![t].sent = files[transcribeReq[t].path]]
            /\ UNCHANGED <<lastRes, files, orphanFiles>>
  /\ UNCHANGED sttCalls

\* The transcription call succeeded: unlinkSync(tempFilePath), which throws
\* when the file is gone, then res.json({transcription})
TranscribeSucceed(t) ==
  /\ transcribeReq[t].pc = "awaiting"
  /\ OPENAI_API_KEY
  /\ LET p == transcribeReq[t].path
     IN IF files[p] = NoFile
          THEN /\ lastRes' = TranscribeFailed(t)
               /\ ReleaseFile(t, files)
          ELSE /\ lastRes' = [NoRes EXCEPT !.endpoint = "transcribe", !.status = 200,
                                !.called = TRUE,
                                !.transcription = Whisper(transcribeReq[t].sent)]
               /\ ReleaseFile(t, [files EXCEPT ![p] = NoFile])
  /\ UNCHANGED sttCalls

\* The transcription call threw: caught, 500; the file is not removed
TranscribeFail(t) ==
  /\ transcribeReq[t].pc \in {"opening", "awaiting"}
  /\ lastRes' = TranscribeFailed(t)
  /\ ReleaseFile(t, files)
  /\ UNCHANGED sttCalls

(***************************************************************************)
(* POST /api/tts.                                                          *)
(***************************************************************************)
\* voiceMap[character]
VoiceOf(k) == CASE k = "joey" -> "onyx"
                [] k = "dwight" -> "echo"
                [] k = "dhruv" -> "fable"
                [] k \in ProtoKeys -> "inherited"
                [] OTHER -> "undefined"

\* Up to its await: validation (variant A checks characters[character],
\* variant B the credential), then speech.create({voice, input})
TtsArrive(t, text, ch) ==
  /\ ttsReq[t].pc = "free"
  /\ IF text = Missing \/ ch = Missing
       THEN /\ lastRes' = Answer("tts", text, ch, 400, "Missing text or character")
            /\ UNCHANGED <<ttsReq, ttsCalls>>
     ELSE IF variant = "A" /\ ~CharactersTruthy(ch)
       THEN /\ lastRes' = Answer("tts", text, ch, 400, "Invalid character")
            /\ UNCHANGED <<ttsReq, ttsCalls>>
     ELSE IF variant = "B" /\ ~OPENAI_API_KEY
       THEN /\ lastRes' = Answer("tts", text, ch, 500,
                                 "Server configuration error: Missing API key")
            /\ UNCHANGED <<ttsReq, ttsCalls>>
     ELSE /\ ttsCalls < MaxCalls
          /\ ttsCalls' = ttsCalls + 1
          /\ ttsReq' = [ttsReq EXCEPT ![t] = [pc |-> "awaiting", text |-> text,
                                               character |-> ch]]
          /\ UNCHANGED lastRes

\* The synthesis call succeeded: res.json({audio: base64, character})
TtsSucceed(t, audio) ==
  /\ ttsReq[t].pc = "awaiting"
  /\ OPENAI_API_KEY
  /\ lastRes' = [NoRes EXCEPT !.endpoint = "tts", !.userMessage = ttsReq[t].text,
                   !.character = ttsReq[t].character, !.status = 200, !.called = TRUE,
                   !.audio = audio]
  /\ ttsReq' = [ttsReq EXCEPT ![t] = FreeTts]
  /\ UNCHANGED ttsCalls

\* The synthesis call threw: caught, 500
TtsFail(t) ==
  /\ ttsReq[t].pc = "awaiting"
  /\ lastRes' = [NoRes EXCEPT !.endpoint = "tts", !.userMessage = ttsReq[t].text,
                   !.character = ttsReq[t].character, !.status = 500, !.called = TRUE,
                   !.error = "Text-to-speech failed"]
  /\ ttsReq' = [ttsReq EXCEPT ![t] = FreeTts]
  /\ UNCHANGED ttsCalls

(***************************************************************************)
(* GET /api/characters.                                                    *)
(***************************************************************************)
\* Object.keys(characters).map(key => ({id, name, source, greeting}))
CharList ==
  [n \in 1..Len(ObjectKeys) |->
     [id |-> ObjectKeys[n], name |-> characters[ObjectKeys[n]].name,
      source |-> characters[ObjectKeys[n]].source,
      greeting |-> characters[ObjectKeys[n]].greeting]]

\* GetCharacters with a handler that strips the prompts in the registry
\* itself before it lists it
GetCharacters_DeletesPrompt ==
  /\ characters' = [k \in DOMAIN characters |->
                      [characters[k] EXCEPT !.systemPrompt = "undefined"]]
  /\ lastRes' = [NoRes EXCEPT !.endpoint = "characters", !.status = 200,
                              !.charList = CharList]
  /\ UNCHANGED <<variant, OPENAI_API_KEY>>

\* The handler of /api/characters
GetCharacters ==
  /\ lastRes' = [NoRes EXCEPT !.endpoint = "characters", !.status = 200,
                              !.charList = CharList]
  /\ UNCHANGED cfgVars

Next ==
  \/ \E r \in RSlots, um \in UserTexts \cup {Missing}, ch \in Keys \cup {Missing} :
       NewSlot(r) /\ RespondArriveA(r, um, ch) /\ UNCHANGED <<cfgVars, sttVars, ttsVars, clientVars>>
  \/ \E r \in RSlots, um \in UserTexts \cup {Missing}, ch \in Keys \cup {Missing} :
       NewSlot(r) /\ RespondArriveB(r, um, ch) /\ UNCHANGED <<cfgVars, sttVars, ttsVars, clientVars>>
  \/ \E r \in RSlots, reply \in ReplyTexts :
       RespondSucceedA(r, reply) /\ UNCHANGED <<cfgVars, sttVars, ttsVars, clientVars>>
  \/ \E r \in RSlots, reply \in ReplyTexts :
       RespondSucceedB(r, reply) /\ UNCHANGED <<cfgVars, sttVars, ttsVars, clientVars>>
  \/ \E r \in RSlots : RespondFail(r) /\ UNCHANGED <<cfgVars, sttVars, ttsVars, clientVars>>
  \/ \E ch \in Keys \cup {Missing} :
       ClearHistory(ch) /\ UNCHANGED <<cfgVars, sttVars, ttsVars, clientVars>>

Spec == Init /\ [][Next]_vars

(***************************************************************************)
(* The store: /api/respond and /api/clear-history (specification Spec).    *)
(***************************************************************************)
Last(q) == q[Len(q)]

\* C1: every handler of a persona that has made its generation call sent
\* exactly: the persona's systemPrompt as a system entry, then the history
\* as it was when the request arrived, then the request's userMessage as a
\* user entry.
C1_MessageListShape ==
  \A r \in RSlots :
    (respondReq[r].pc = "awaiting" /\ respondReq[r].character \in Personas) =>
      respondReq[r].messages =
        <<Msg("system", SystemPromptOf(respondReq[r].character))>>
          \o respondReq[r].histAtArrival
          \o <<Msg("user", respondReq[r].userMessage)>>

\* A handler awaits its generation call for a persona whose history was not
\* empty when the request arrived.
C1_Witness ==
  \E r \in RSlots : /\ respondReq[r].pc = "awaiting"
                    /\ respondReq[r].character \in Personas
                    /\ Len(respondReq[r].histAtArrival) >= 2
                    /\ Len(respondReq[r].messages) >= 4

\* The step in which the handler in slot r is answered 200
Succeeds(r) == /\ respondReq[r].pc = "awaiting"
               /\ respondReq'[r].pc = "free"
               /\ lastRes'.endpoint = "respond"
               /\ lastRes'.status = 200
               /\ lastRes'.userMessage = respondReq[r].userMessage
               /\ lastRes'.character = respondReq[r].character
               /\ \E reply \in ReplyTexts : RespondSucceedA(r, reply) \/ RespondSucceedB(r, reply)

\* C2: when a respond request succeeds and no other request for its persona
\* was in flight with it, the persona's history is then the history at the
\* request's arrival followed by the user message and the reply.
C2_AppendsUserThenAssistant ==
  [][\A r \in RSlots :
       (Succeeds(r) /\ ~respondReq[r].overlapped) =>
         chatHistories'[respondReq[r].character].items =
           respondReq[r].histAtArrival
             \o <<Msg("user", respondReq[r].userMessage),
                  Msg("assistant", lastRes'.response)>>]_vars

\* A request that was alone with its persona was answered 200 and found a
\* history that was not empty.
C2_Witness ==
  /\ lastRes.endpoint = "respond" /\ lastRes.status = 200 /\ ~lastRes.overlapped
  /\ lastRes.character \in Personas
  /\ Len(lastRes.histAtArrival) >= 2
  /\ Hist(lastRes.character) = lastRes.histAtArrival
       \o <<Msg("user", lastRes.userMessage), Msg("assistant", lastRes.response)>>

\* C3 (as claimed): when the generation call of a request fails, and no
\* other request for its persona was in flight with it, the persona's
\* history then ends with the request's user message.
C3_FailedGenerationKeepsUser ==
  [][\A r \in RSlots :
       (RespondFail(r) /\ ~respondReq[r].overlapped
          /\ respondReq[r].character \in Personas) =>
         LET h == chatHistories'[respondReq[r].character].items
         IN Len(h) > 0 /\ Last(h) = Msg("user", respondReq[r].userMessage)]_vars

\* No respond handler for key k awaits its generation call
Quiet(k) == \A r \in RSlots : ~(respondReq[r].pc = "awaiting" /\ respondReq[r].character = k)

\* C4 (as claimed): with no request for persona p in flight, the length of
\* p's history is twice the number of succeeded generations since the last
\* clear, plus one if the most recent generation for p failed.
C4_HistoryLength ==
  \A p \in Personas :
    Quiet(p) => Len(Hist(p)) = 2 * nSucceeded[p] + (IF lastGenFailed[p] THEN 1 ELSE 0)

\* C8: /api/clear-history for a persona answers 200 and leaves the persona's
\* history empty; applied to the state a clear has just left, it changes
\* neither the store nor the response.
C8_ClearEmptiesAndIsIdempotent ==
  [][\A p \in Personas :
       ClearHistory(p) =>
         /\ chatHistories'[p].items = <<>>
         /\ lastRes' = Answer("clear", Missing, p, 200, "")
         /\ (lastRes = lastRes' /\ Hist(p) = <<>>) =>
              (chatHistories' = chatHistories /\ detached' = detached)]_vars

\* A clear has been answered 200 for a persona whose history held messages:
\* a handler that saw them (or added one) still awaits its call.
C8_Witness ==
  /\ lastRes = Answer("clear", Missing, lastRes.character, 200, "")
  /\ lastRes.character \in Personas
  /\ Hist(lastRes.character) = <<>>
  /\ \E r \in RSlots : /\ respondReq[r].pc = "awaiting"
                       /\ respondReq[r].character = lastRes.character
                       /\ Len(respondReq[r].messages) >= 4

\* C9 (as claimed): a respond request whose character is not a configured
\* persona is answered with a 400-class status and makes no generation call.
C9_UnknownCharacterRejected ==
  /\ (lastRes.endpoint = "respond" /\ lastRes.character \notin Personas) =>
       (lastRes.status \in 400..499 /\ ~lastRes.called)
  /\ \A r \in RSlots : respondReq[r].pc = "awaiting" => respondReq[r].character \in Personas

(***************************************************************************)
(* The client: recording controls.                                         *)
(***************************************************************************)
\* showStatus(message)
ShowStatus(message) == statusHidden' = FALSE /\ statusText' = message

\* hideStatus()
HideStatus == statusHidden' = TRUE /\ UNCHANGED statusText

\* startRecording after its microphone check, with m in mediaRecorder:
\* mediaRecorder.start() throws when m is already recording, and the rest
\* of the function is skipped
StartTail(m) ==
  IF recorderState[m] = "recording"
    THEN UNCHANGED <<recorderState, recordBtnHidden, stopBtnHidden, statusVars>>
    ELSE /\ recorderState' = [recorderState EXCEPT ![m] = "recording"]
         /\ recordBtnHidden' = TRUE
         /\ stopBtnHidden' = FALSE
         /\ ShowStatus(Status("recording", ""))

\* A click on recordBtn: startRecording up to its first await, with at most
\* limit requests for the microphone pending
StartRecordingWith(limit) ==
  /\ ~recordBtnHidden
  /\ IF mediaRecorder = NoRecorder
       THEN /\ micPending < limit
            /\ micPending' = micPending + 1
            /\ UNCHANGED <<recorderState, recordBtnHidden, stopBtnHidden, statusVars>>
       ELSE /\ StartTail(mediaRecorder)
            /\ UNCHANGED micPending
  /\ UNCHANGED <<mediaRecorder, pendingStops, lastAlert>>
  /\ UNCHANGED <<serverVars, currentCharacter, clientHistories, pipes, playVars>>

StartRecording == StartRecordingWith(MaxMicPending)

\* getUserMedia resolved: requestMicrophone stores a new recorder and
\* startRecording goes on
MicGranted ==
  /\ micPending > 0
  /\ micPending' = micPending - 1
  /\ mediaRecorder' = mediaRecorder + 1
  /\ StartTail(mediaRecorder')
  /\ UNCHANGED <<pendingStops, lastAlert>>
  /\ UNCHANGED <<serverVars, currentCharacter, clientHistories, pipes, playVars>>

\* MicDenied without the return of startRecording on a denied microphone:
\* the controls and the status go to recording
MicDenied_ShowsRecording ==
  /\ micPending > 0
  /\ micPending' = micPending - 1
  /\ lastAlert' = "Please allow microphone access"
  /\ recordBtnHidden' = TRUE
  /\ stopBtnHidden' = FALSE
  /\ ShowStatus(Status("recording", ""))
  /\ UNCHANGED <<mediaRecorder, recorderState, pendingStops>>
  /\ UNCHANGED <<serverVars, currentCharacter, clientHistories, pipes, playVars>>

\* getUserMedia rejected: alert, and startRecording returns
MicDenied ==
  /\ micPending > 0
  /\ micPending' = micPending - 1
  /\ lastAlert' = "Please allow microphone access"
  /\ UNCHANGED <<mediaRecorder, recorderState, pendingStops, recordBtnHidden, stopBtnHidden>>
  /\ UNCHANGED <<serverVars, currentCharacter, clientHistories, statusVars, pipes, playVars>>

\* A click on stopBtn: stopRecording; mediaRecorder.stop() throws when the
\* recorder is inactive
StopRecording ==
  /\ ~stopBtnHidden
  /\ mediaRecorder # NoRecorder
  /\ IF recorderState[mediaRecorder] = "inactive"
       THEN UNCHANGED <<recorderState, pendingStops, recordBtnHidden, stopBtnHidden, statusVars>>
       ELSE /\ pendingStops < MaxInFlight
            /\ recorderState' = [recorderState EXCEPT ![mediaRecorder] = "inactive"]
            /\ pendingStops' = pendingStops + 1
            /\ stopBtnHidden' = TRUE
            /\ recordBtnHidden' = FALSE
            /\ ShowStatus(Status("processing", ""))
  /\ UNCHANGED <<mediaRecorder, micPending, lastAlert>>
  /\ UNCHANGED <<serverVars, currentCharacter, clientHistories, pipes, playVars>>

(***************************************************************************)
(* The client: sendToServer.  A fetch and the arrival of its request at    *)
(* the server are one step; net tells that the fetch rejects instead (the  *)
(* server is not reached).  The sendToServer call in slot i talks to the   *)
(* handlers in slot i.                                                     *)
(***************************************************************************)
\* The slot a new sendToServer call takes
NewPipe(i) == /\ pipes[i].pc = "free"
              /\ \A j \in RSlots : j < i => pipes[j].pc # "free"

\* Catch without its showStatus and without its reset of the controls
Catch_KeepsStatus(i, message) ==
  /\ pipes' = [pipes EXCEPT ![i] = FreePipe]
  /\ UNCHANGED <<recVars, statusVars>>
  /\ UNCHANGED <<serverVars, currentCharacter, clientHistories, playVars>>

\* The catch block of sendToServer
Catch(i, message) ==
  /\ ShowStatus(Status("error", message))
  /\ recordBtnHidden' = FALSE
  /\ stopBtnHidden' = TRUE
  /\ pipes' = [pipes EXCEPT ![i] = FreePipe]
  /\ UNCHANGED <<mediaRecorder, recorderState, micPending, pendingStops, lastAlert>>
  /\ UNCHANGED <<serverVars, currentCharacter, clientHistories, playVars>>

\* addToHistory(sender, message, audio)
AddToHistory(sender, message, audio) ==
  clientHistories' = [clientHistories EXCEPT ![currentCharacter] =
                        Append(@, Item(sender, message, audio))]

\* mediaRecorder.onstop: handleRecordingStop, and sendToServer up to the
\* fetch of /api/transcribe
HandleRecordingStop(i, audio, net, stamp) ==
  /\ pendingStops > 0
  /\ NewPipe(i)
  /\ pendingStops' = pendingStops - 1
  /\ ShowStatus(Status("transcribing", ""))
  /\ IF net
       THEN /\ pipes' = [pipes EXCEPT ![i] = [pc |-> "transcribe", res |-> NetworkError,
                                               response |-> ""]]
            /\ UNCHANGED <<sttVars, lastRes>>
       ELSE /\ TranscribeArrive(i, audio, stamp)
            /\ pipes' = [pipes EXCEPT ![i] =
                 [pc |-> "transcribe",
                  res |-> IF transcribeReq'[i].pc = "free" THEN Delivered(lastRes') ELSE Pending,
                  response |-> ""]]
  /\ UNCHANGED <<cfgVars, storeVars, ttsVars>>
  /\ UNCHANGED <<mediaRecorder, recorderState, micPending, recordBtnHidden, stopBtnHidden,
                 lastAlert>>
  /\ UNCHANGED <<currentCharacter, clientHistories, playVars>>

\* The fetch of /api/transcribe answered OK: addToHistory('user'), and the
\* fetch of /api/respond
Transcribed(i, net) ==
  LET transcription == pipes[i].res.transcription
  IN /\ AddToHistory("user", transcription, "")
     /\ ShowStatus(Status("thinking", currentCharacter))
     /\ IF net
          THEN /\ pipes' = [pipes EXCEPT ![i] =
                    [pc |-> "respond", res |-> NetworkError, response |-> ""]]
               /\ UNCHANGED <<storeVars, lastRes>>
          ELSE /\ \/ RespondArriveA(i, transcription, currentCharacter)
                  \/ RespondArriveB(i, transcription, currentCharacter)
               /\ pipes' = [pipes EXCEPT ![i] =
                    [pc |-> "respond",
                     res |-> IF respondReq'[i].pc = "free"
                               THEN Delivered(lastRes') ELSE Pending,
                     response |-> ""]]
     /\ UNCHANGED <<cfgVars, sttVars, ttsVars>>
     /\ UNCHANGED <<currentCharacter, recVars, playVars>>

\* AfterTranscribe without the check of transcribeRes.ok
AfterTranscribe_NoOkCheck(i, net) ==
  /\ pipes[i].pc = "transcribe"
  /\ pipes[i].res.state # "pending"
  /\ IF pipes[i].res.state = "rejected" THEN Catch(i, "Failed to fetch")
     ELSE Transcribed(i, net)

\* After the fetch of /api/transcribe
AfterTranscribe(i, net) ==
  /\ pipes[i].pc = "transcribe"
  /\ pipes[i].res.state # "pending"
  /\ IF pipes[i].res.state = "rejected" THEN Catch(i, "Failed to fetch")
     ELSE IF ~pipes[i].res.ok THEN Catch(i, "Transcription failed")
     ELSE Transcribed(i, net)

\* The fetch of /api/respond answered OK: the fetch of /api/tts
Responded(i, net) ==
  LET response == pipes[i].res.response
  IN /\ ShowStatus(Status("generating voice", ""))
     /\ IF net
          THEN /\ pipes' = [pipes EXCEPT ![i] =
                    [pc |-> "tts", res |-> NetworkError, response |-> response]]
               /\ UNCHANGED <<ttsVars, lastRes>>
          ELSE /\ TtsArrive(i, response, currentCharacter)
               /\ pipes' = [pipes EXCEPT ![i] =
                    [pc |-> "tts",
                     res |-> IF ttsReq'[i].pc = "free"
                               THEN Delivered(lastRes') ELSE Pending,
                     response |-> response]]
     /\ UNCHANGED <<cfgVars, storeVars, sttVars>>
     /\ UNCHANGED <<currentCharacter, clientHistories, recVars, playVars>>

\* AfterRespond without the check of respondRes.ok
AfterRespond_NoOkCheck(i, net) ==
  /\ pipes[i].pc = "respond"
  /\ pipes[i].res.state # "pending"
  /\ IF pipes[i].res.state = "rejected" THEN Catch(i, "Failed to fetch")
     ELSE Responded(i, net)

\* After the fetch of /api/respond
AfterRespond(i, net) ==
  /\ pipes[i].pc = "respond"
  /\ pipes[i].res.state # "pending"
  /\ IF pipes[i].res.state = "rejected" THEN Catch(i, "Failed to fetch")
     ELSE IF ~pipes[i].res.ok THEN Catch(i, "Response generation failed")
     ELSE Responded(i, net)

\* Setting audioPlayer.src loads the new audio: the play() promises still
\* pending will reject
Aborted(promises) == [k \in 1..Len(promises) |-> [promises[k] EXCEPT !.fate = "reject"]]

\* After the fetch of /api/tts: addToHistory('character') with the audio,
\* and the autoplay; allowed tells whether the browser lets play() start
AfterTts(i, allowed) ==
  /\ pipes[i].pc = "tts"
  /\ pipes[i].res.state # "pending"
  /\ IF pipes[i].res.state = "rejected" THEN Catch(i, "Failed to fetch")
     ELSE IF ~pipes[i].res.ok THEN Catch(i, "TTS failed")
     ELSE /\ Len(playPromises) < MaxPromises
          /\ AddToHistory("character", pipes[i].response, pipes[i].res.audio)
          /\ currentlyPlayingIndex' = Len(clientHistories'[currentCharacter]) - 1
          /\ currentlyPlayingCharacter' = currentCharacter
          /\ audioPlayer' = [character |-> currentCharacter,
                             index |-> Len(clientHistories'[currentCharacter]) - 1,
                             paused |-> ~allowed, ended |-> FALSE]
          /\ playPromises' = Append(Aborted(playPromises),
                                    [kind |-> "auto",
                                     fate |-> IF allowed THEN "pending" ELSE "reject"])
          /\ pipes' = [pipes EXCEPT ![i] = FreePipe]
          /\ UNCHANGED <<serverVars, currentCharacter, recVars, statusVars>>

(***************************************************************************)
(* The client: the callbacks of play(), the audio element, the persona     *)
(* buttons and the clear button.                                           *)
(***************************************************************************)
Without(q, k) == [j \in 1..(Len(q) - 1) |-> IF j < k THEN q[j] ELSE q[j + 1]]

\* play() resolved: playback of the loaded audio has started
PlayThen(k) ==
  /\ k \in 1..Len(playPromises)
  /\ playPromises[k].fate = "pending"
  /\ playPromises' = Without(playPromises, k)
  /\ IF playPromises[k].kind = "auto" THEN HideStatus ELSE UNCHANGED statusVars
  /\ UNCHANGED <<currentlyPlayingIndex, currentlyPlayingCharacter, audioPlayer>>
  /\ UNCHANGED <<serverVars, currentCharacter, clientHistories, recVars, pipes>>

\* play() rejected: not allowed, aborted by a later load, or the audio
\* cannot be played
PlayCatch(k) ==
  /\ k \in 1..Len(playPromises)
  /\ playPromises' = Without(playPromises, k)
  /\ currentlyPlayingIndex' = NullIndex
  /\ currentlyPlayingCharacter' = Missing
  /\ IF playPromises[k].kind = "auto"
       THEN HideStatus /\ UNCHANGED lastAlert
       ELSE /\ lastAlert' = "Click the play button again to play"
            /\ UNCHANGED statusVars
  /\ UNCHANGED audioPlayer
  /\ UNCHANGED <<mediaRecorder, recorderState, micPending, pendingStops, recordBtnHidden,
                 stopBtnHidden>>
  /\ UNCHANGED <<serverVars, currentCharacter, clientHistories, pipes>>

\* audioPlayer.onended: the audio that was playing played to its end
AudioEnded ==
  /\ audioPlayer.index # NullIndex
  /\ ~audioPlayer.paused
  /\ ~audioPlayer.ended
  /\ \A k \in 1..Len(playPromises) : playPromises[k].fate # "pending"
  /\ audioPlayer' = [audioPlayer EXCEPT !.ended = TRUE]
  /\ currentlyPlayingIndex' = NullIndex
  /\ currentlyPlayingCharacter' = Missing
  /\ UNCHANGED playPromises
  /\ UNCHANGED <<serverVars, currentCharacter, clientHistories, recVars, statusVars, pipes>>

\* A click on a persona button: selectCharacter(characterName)
SelectCharacter(characterName) ==
  /\ currentCharacter' = characterName
  /\ HideStatus
  /\ UNCHANGED <<serverVars, clientHistories, recVars, pipes, playVars>>

\* ClearChat without its reset of the playback: the history is emptied and
\* the tracking variables and the audio are left as they are
ClearChat_KeepsTracking ==
  /\ clientHistories' = [clientHistories EXCEPT ![currentCharacter] = <<>>]
  /\ HideStatus
  /\ UNCHANGED playVars
  /\ UNCHANGED <<serverVars, currentCharacter, recVars, pipes>>

\* A click on clearBtn, confirmed: clearChat()
ClearChat ==
  /\ clientHistories' = [clientHistories EXCEPT ![currentCharacter] = <<>>]
  /\ HideStatus
  /\ IF currentlyPlayingCharacter = currentCharacter
       THEN /\ audioPlayer' = [audioPlayer EXCEPT !.paused = TRUE]
            /\ playPromises' = IF audioPlayer.paused THEN playPromises
                               ELSE Aborted(playPromises)
            /\ currentlyPlayingIndex' = NullIndex
            /\ currentlyPlayingCharacter' = Missing
       ELSE UNCHANGED playVars
  /\ UNCHANGED <<serverVars, currentCharacter, recVars, pipes>>

(***************************************************************************)
(* The client and the server it talks to: the handlers answer the fetch    *)
(* of the sendToServer call in their slot.                                 *)
(***************************************************************************)
\* The handler in slot i ended (freed): its response reaches the fetch
Answered(i, freed) ==
  /\ pipes' = [pipes EXCEPT ![i].res = IF freed THEN Delivered(lastRes') ELSE @]
  /\ UNCHANGED <<cfgVars, currentCharacter, clientHistories, recVars, statusVars, playVars>>

ClientNext ==
  \/ StartRecording
  \/ MicGranted
  \/ MicDenied
  \/ StopRecording
  \/ \E i \in RSlots, net \in BOOLEAN, stamp \in Paths :
       /\ net \/ sttCalls < MaxTranscriptions
       /\ HandleRecordingStop(i, Spoken(sttCalls), net, stamp)
  \/ \E i \in RSlots :
       TranscribeRead(i) /\ Answered(i, transcribeReq'[i].pc = "free")
         /\ UNCHANGED <<storeVars, ttsVars>>
  \/ \E i \in RSlots :
       TranscribeSucceed(i) /\ Answered(i, TRUE) /\ UNCHANGED <<storeVars, ttsVars>>
  \/ \E i \in RSlots :
       TranscribeFail(i) /\ Answered(i, TRUE) /\ UNCHANGED <<storeVars, ttsVars>>
  \/ \E i \in RSlots, net \in BOOLEAN : AfterTranscribe(i, net)
  \/ \E i \in RSlots :
       RespondSucceedA(i, ReplyTo(respondReq[i].userMessage)) /\ Answered(i, TRUE) /\ UNCHANGED <<sttVars, ttsVars>>
  \/ \E i \in RSlots :
       RespondSucceedB(i, ReplyTo(respondReq[i].userMessage)) /\ Answered(i, TRUE) /\ UNCHANGED <<sttVars, ttsVars>>
  \/ \E i \in RSlots :
       RespondFail(i) /\ Answered(i, TRUE) /\ UNCHANGED <<sttVars, ttsVars>>
  \/ \E i \in RSlots, net \in BOOLEAN : AfterRespond(i, net)
  \/ \E i \in RSlots, audio \in TtsAudios :
       TtsSucceed(i, audio) /\ Answered(i, TRUE) /\ UNCHANGED <<storeVars, sttVars>>
  \/ \E i \in RSlots :
       TtsFail(i) /\ Answered(i, TRUE) /\ UNCHANGED <<storeVars, sttVars>>
  \/ \E i \in RSlots, allowed \in BOOLEAN : AfterTts(i, allowed)
  \/ \E k \in 1..MaxPromises : PlayThen(k)
  \/ \E k \in 1..MaxPromises : PlayCatch(k)
  \/ AudioEnded
  \/ \E c \in Personas : SelectCharacter(c)
  \/ ClearChat

ClientSpec == Init /\ [][ClientNext]_vars

(***************************************************************************)
(* The client's turns (specification ClientSpec).                          *)
(***************************************************************************)
\* The fetch of stage pc of the sendToServer call in slot i has failed: it
\* rejected, or it was answered non-OK
StageFailed(i, pc) ==
  /\ pipes[i].pc = pc
  /\ pipes[i].res.state # "pending"
  /\ pipes[i].res.state = "rejected" \/ ~pipes[i].res.ok

\* C5: a failed transcription changes no conversation.  No step of an
\* /api/transcribe handler changes a backend history, and the step in which
\* the client takes up a rejected or non-OK /api/transcribe fetch changes
\* no backend history and no client history, and ends the turn: nothing is
\* added for it later.
C5_FailedTranscriptionChangesNothing ==
  [][ /\ (transcribeReq' # transcribeReq) =>
            (chatHistories' = chatHistories /\ detached' = detached)
      /\ \A i \in RSlots :
           (StageFailed(i, "transcribe") /\ pipes'[i] # pipes[i]) =>
              /\ chatHistories' = chatHistories
              /\ detached' = detached
              /\ clientHistories' = clientHistories
              /\ pipes'[i] = FreePipe ]_vars

\* C5: a transcription call failed and the turn ended in the catch block,
\* with nothing added to a history
C5_Witness ==
  /\ lastRes.endpoint = "transcribe" /\ lastRes.status = 500 /\ lastRes.called
  /\ ~statusHidden /\ statusText = Status("error", "Transcription failed")
  /\ \A i \in RSlots : pipes[i].pc = "free"
  /\ \A k \in Personas : clientHistories[k] = <<>> /\ Hist(k) = <<>>

\* A message with this text is in the sequence q of backend messages
HasAssistant(q, text) == \E n \in 1..Len(q) : q[n] = Msg("assistant", text)

\* A character message with this text and no audio is in the sequence q of
\* client messages
HasTextOnly(q, text) == \E n \in 1..Len(q) : q[n] = Item("character", text, "")

\* C6: when the /api/tts fetch of a turn has failed after its generation
\* succeeded, then once the client has taken up the failure the reply of
\* the generation stage is in a persona's backend history and, as a
\* character message without audio, in that persona's client history.
C6_ReplyStoredWithoutAudio ==
  [][ \A i \in RSlots :
        (StageFailed(i, "tts") /\ pipes'[i] # pipes[i]) =>
           \E k \in Personas : /\ HasAssistant(chatHistories'[k].items, pipes[i].response)
                               /\ HasTextOnly(clientHistories'[k], pipes[i].response) ]_vars

\* C7: when the /api/tts fetch of a turn has failed (non-OK or rejected)
\* after /api/respond succeeded, the client adds the reply text to the
\* history of the selected persona as a character message without audio.
C7_ReplyShownTextOnly ==
  [][ \A i \in RSlots :
        (StageFailed(i, "tts") /\ pipes'[i] # pipes[i]) =>
           /\ Len(clientHistories'[currentCharacter]) = Len(clientHistories[currentCharacter]) + 1
           /\ Last(clientHistories'[currentCharacter]) =
                Item("character", pipes[i].response, "") ]_vars

\* The request answered last was valid for its endpoint
ValidRequest ==
  \/ lastRes.endpoint = "transcribe" /\ lastRes.error # "No audio file provided"
  \/ /\ lastRes.endpoint \in {"respond", "tts"}
     /\ lastRes.userMessage # Missing
     /\ lastRes.character \in Personas

\* C10: without the API credential no collaborator is ever called, and
\* every valid request to /api/transcribe, /api/respond or /api/tts is
\* answered with the configuration error.
C10_NoCredentialNoCall ==
  ~OPENAI_API_KEY =>
     /\ genCalls = 0 /\ sttCalls = 0 /\ ttsCalls = 0
     /\ ValidRequest => /\ ~lastRes.called
                        /\ lastRes.error = "Server configuration error: Missing API key"

(***************************************************************************)
(* The endpoints /api/transcribe and /api/tts, requested directly          *)
(* (specification ApiSpec).                                                *)
(***************************************************************************)
\* The slot a new /api/transcribe handler takes
NewTranscribeSlot(t) == /\ transcribeReq[t].pc = "free"
                        /\ \A s \in RSlots : s < t => transcribeReq[s].pc # "free"

\* The slot a new /api/tts handler takes
NewTtsSlot(t) == /\ ttsReq[t].pc = "free"
                 /\ \A s \in RSlots : s < t => ttsReq[s].pc # "free"

ApiNext ==
  \/ \E t \in RSlots, file \in Audios \cup {NoFile}, stamp \in Paths :
       /\ NewTranscribeSlot(t)
       /\ TranscribeArrive(t, file, stamp)
       /\ UNCHANGED <<cfgVars, storeVars, ttsVars, clientVars>>
  \/ \E t \in RSlots :
       TranscribeRead(t) /\ UNCHANGED <<cfgVars, storeVars, ttsVars, clientVars>>
  \/ \E t \in RSlots :
       TranscribeSucceed(t) /\ UNCHANGED <<cfgVars, storeVars, ttsVars, clientVars>>
  \/ \E t \in RSlots :
       TranscribeFail(t) /\ UNCHANGED <<cfgVars, storeVars, ttsVars, clientVars>>
  \/ \E t \in RSlots, text \in ReplyTexts \cup {Missing}, ch \in Keys \cup {Missing} :
       /\ NewTtsSlot(t)
       /\ TtsArrive(t, text, ch)
       /\ UNCHANGED <<cfgVars, storeVars, sttVars, clientVars>>
  \/ \E t \in RSlots, audio \in TtsAudios :
       TtsSucceed(t, audio) /\ UNCHANGED <<cfgVars, storeVars, sttVars, clientVars>>
  \/ \E t \in RSlots :
       TtsFail(t) /\ UNCHANGED <<cfgVars, storeVars, sttVars, clientVars>>

ApiSpec == Init /\ [][ApiNext]_vars

\* A request field is missing, or the character is no configured persona
InvalidFields(text, ch) == text = Missing \/ ch \notin Personas

\* The step answered a request to the endpoint with a 4xx response
Rejected(endpoint) == lastRes'.endpoint = endpoint /\ lastRes'.status \in 400..499

\* C11: a request to /api/transcribe without a file, and a request to
\* /api/respond or /api/tts with a missing field or with a character that
\* is no configured persona, is answered 4xx in the step in which it
\* arrives, and no collaborator call is made for it.
C11_InvalidRequestsRejected ==
  [][ /\ \A t \in RSlots, stamp \in Paths :
           TranscribeArrive(t, NoFile, stamp) =>
             Rejected("transcribe") /\ sttCalls' = sttCalls
      /\ \A t \in RSlots, text \in ReplyTexts \cup {Missing}, ch \in Keys \cup {Missing} :
           (InvalidFields(text, ch) /\ TtsArrive(t, text, ch)) =>
             Rejected("tts") /\ ttsCalls' = ttsCalls
      /\ \A r \in RSlots, um \in UserTexts \cup {Missing}, ch \in Keys \cup {Missing} :
           (InvalidFields(um, ch) /\ (RespondArriveA(r, um, ch) \/ RespondArriveB(r, um, ch))) =>
             Rejected("respond") /\ genCalls' = genCalls ]_vars

\* The stages of a turn, in the order in which sendToServer runs them
Forward == {<<"free", "transcribe">>, <<"transcribe", "respond">>, <<"respond", "tts">>,
            <<"transcribe", "free">>, <<"respond", "free">>, <<"tts", "free">>}

\* A handler took the slot in this step: a request arrived and reached its
\* collaborator call
Arrived(req, i) == req[i].pc = "free" /\ req'[i].pc # "free"

\* A handler that had made its call left the slot in this step
Ended(req, i) == req[i].pc # "free" /\ req'[i].pc = "free"

\* C12: no automatic retries.  A collaborator is called only in the step
\* in which a request arrives, and once for it; a handler that ends, by
\* success or by the failure of its call, answers its own request (200 or
\* 500) and calls nothing; a client turn goes through its stages forward
\* only, and a request reaches an endpoint only in the step in which the
\* turn enters that stage.
C12_NoRetries ==
  [][ /\ sttCalls' # sttCalls =>
           sttCalls' = sttCalls + 1 /\ Cardinality({i \in RSlots : Arrived(transcribeReq, i)}) = 1
      /\ genCalls' # genCalls =>
           genCalls' = genCalls + 1 /\ Cardinality({i \in RSlots : Arrived(respondReq, i)}) = 1
      /\ ttsCalls' # ttsCalls =>
           ttsCalls' = ttsCalls + 1 /\ Cardinality({i \in RSlots : Arrived(ttsReq, i)}) = 1
      /\ \A i \in RSlots :
           /\ Arrived(transcribeReq, i) =>
                sttCalls' = sttCalls + 1 /\ pipes[i].pc = "free" /\ pipes'[i].pc = "transcribe"
           /\ Arrived(respondReq, i) =>
                genCalls' = genCalls + 1 /\ pipes[i].pc = "transcribe" /\ pipes'[i].pc = "respond"
           /\ Arrived(ttsReq, i) =>
                ttsCalls' = ttsCalls + 1 /\ pipes[i].pc = "respond" /\ pipes'[i].pc = "tts"
           /\ (Ended(transcribeReq, i) \/ Ended(respondReq, i) \/ Ended(ttsReq, i)) =>
                /\ lastRes'.called /\ lastRes'.status \in {200, 500}
                /\ pipes'[i].res = Delivered(lastRes')
                /\ <<sttCalls', genCalls', ttsCalls'>> = <<sttCalls, genCalls, ttsCalls>>
           /\ Ended(respondReq, i) => lastRes'.userMessage = respondReq[i].userMessage
           /\ Ended(ttsReq, i) => lastRes'.userMessage = ttsReq[i].text
           /\ pipes'[i].pc # pipes[i].pc => <<pipes[i].pc, pipes'[i].pc>> \in Forward ]_vars

\* C12: the generation call of a turn failed; it was the only generation
\* call, and the turn ended with the error
C12_Witness ==
  /\ lastRes.endpoint = "respond" /\ lastRes.status = 500 /\ lastRes.called
  /\ genCalls = 1 /\ sttCalls = 1 /\ ttsCalls = 0
  /\ \A i \in RSlots : pipes[i].pc = "free"
  /\ statusText = Status("error", "Response generation failed")

\* The step is one of a /api/respond or /api/clear-history request for key p
RequestStepFor(p) ==
  \/ \E r \in RSlots, um \in UserTexts \cup {Missing} :
       RespondArriveA(r, um, p) \/ RespondArriveB(r, um, p)
  \/ \E r \in RSlots, reply \in ReplyTexts :
       /\ respondReq[r].character = p
       /\ RespondSucceedA(r, reply) \/ RespondSucceedB(r, reply) \/ RespondFail(r)
  \/ ClearHistory(p)

\* C13: a step of a /api/respond or /api/clear-history request for p,
\* whatever its outcome and whatever else is in flight, leaves the backend
\* history of every persona other than p as it was.
C13_OtherPersonasUntouched ==
  [][ \A p \in Keys \cup {Missing} : \A q \in Personas \ {p} :
        RequestStepFor(p) => chatHistories'[q] = chatHistories[q] ]_vars

\* C13: joey's history was cleared while dwight has a history and a
\* request in flight
C13_Witness ==
  /\ lastRes.endpoint = "clear" /\ lastRes.status = 200 /\ lastRes.character = "joey"
  /\ Hist("joey") = <<>> /\ Hist("dwight") # <<>>
  /\ \E r \in RSlots : respondReq[r].pc = "awaiting" /\ respondReq[r].character = "dwight"

\* The roles of the messages of q, in order
Roles(q) == [n \in 1..Len(q) |-> q[n].role]

\* C14 as stated: when a /api/respond request that overlapped another one
\* for its persona completes, its entries are appended then, so that the
\* persona's history ends with its user message and its reply: the entries
\* of overlapping requests are in call-completion order.
C14_AppendedInCompletionOrder ==
  [][ \A r \in RSlots, reply \in ReplyTexts :
        (respondReq[r].overlapped /\ (RespondSucceedA(r, reply) \/ RespondSucceedB(r, reply))) =>
           LET h == chatHistories'[respondReq[r].character].items
           IN /\ Len(h) >= 2
              /\ h[Len(h) - 1] = Msg("user", respondReq[r].userMessage)
              /\ h[Len(h)] = Msg("assistant", reply) ]_vars

\* C14, amended: in variant A both entries of a request are appended, as a
\* pair, when its generation call completes, and nothing when it arrives;
\* in variant B the user entry is appended when the request arrives (start
\* order) and only the assistant entry when the call completes (completion
\* order), onto the array the handler took at arrival.
C14_AppendOrderByVariant ==
  [][ \A r \in RSlots :
        /\ \A reply \in ReplyTexts :
             LET ch == respondReq[r].character
             IN /\ (respondReq[r].overlapped /\ RespondSucceedA(r, reply)) =>
                     chatHistories'[ch].items =
                       Hist(ch) \o <<Msg("user", respondReq[r].userMessage),
                                     Msg("assistant", reply)>>
                /\ (respondReq[r].overlapped /\ respondReq[r].history = "live"
                      /\ RespondSucceedB(r, reply)) =>
                     chatHistories'[ch].items = Append(Hist(ch), Msg("assistant", reply))
        /\ \A um \in UserTexts, ch \in Personas :
             /\ (RespondArriveA(r, um, ch) /\ Arrived(respondReq, r)) =>
                  chatHistories' = chatHistories
             /\ (RespondArriveB(r, um, ch) /\ Arrived(respondReq, r)) =>
                  chatHistories'[ch].items = Append(Hist(ch), Msg("user", um)) ]_vars

\* C14: in variant B two requests for one persona overlapped and the one
\* that started last completed first: both user entries come before both
\* assistant entries
C14_Witness ==
  /\ variant = "B"
  /\ lastRes.endpoint = "respond" /\ lastRes.status = 200 /\ lastRes.overlapped
  /\ \E k \in Personas :
       /\ lastRes.character = k
       /\ Roles(Hist(k)) = <<"user", "user", "assistant", "assistant">>
       /\ Hist(k)[1].content = lastRes.userMessage
       /\ Hist(k)[4].content = lastRes.response
       /\ Hist(k)[2].content # lastRes.userMessage

(***************************************************************************)
(* The client: the play buttons (specification PlaybackSpec: turns whose   *)
(* requests all succeed, and playback).                                    *)
(***************************************************************************)
\* The displayed history has a play button for the message at messageIndex:
\* loadCharacterHistory and addToHistory make one for every character
\* message with audio of the selected persona
HasPlayButton(messageIndex) ==
  /\ messageIndex \in 0..(Len(clientHistories[currentCharacter]) - 1)
  /\ clientHistories[currentCharacter][messageIndex + 1].sender = "character"
  /\ clientHistories[currentCharacter][messageIndex + 1].audio # ""

\* playMessageAudio that always loads and plays, without the toggle
PlayMessageAudio_NoToggle(messageIndex, allowed) ==
  /\ HasPlayButton(messageIndex)
  /\ Len(playPromises) < MaxPromises
  /\ currentlyPlayingIndex' = messageIndex
  /\ currentlyPlayingCharacter' = currentCharacter
  /\ audioPlayer' = [character |-> currentCharacter, index |-> messageIndex,
                     paused |-> ~allowed, ended |-> FALSE]
  /\ playPromises' = Append(Aborted(playPromises),
                            [kind |-> "click",
                             fate |-> IF allowed THEN "pending" ELSE "reject"])
  /\ UNCHANGED <<serverVars, currentCharacter, clientHistories, recVars, statusVars, pipes>>

\* playMessageAudio that leaves the tracked message as it is while another
\* message is tracked as playing
PlayMessageAudio_KeepsTracked(messageIndex, allowed) ==
  /\ HasPlayButton(messageIndex)
  /\ Len(playPromises) < MaxPromises
  /\ IF currentlyPlayingIndex = NullIndex
       THEN /\ currentlyPlayingIndex' = messageIndex
            /\ currentlyPlayingCharacter' = currentCharacter
       ELSE UNCHANGED <<currentlyPlayingIndex, currentlyPlayingCharacter>>
  /\ audioPlayer' = [character |-> currentCharacter, index |-> messageIndex,
                     paused |-> ~allowed, ended |-> FALSE]
  /\ playPromises' = Append(Aborted(playPromises),
                            [kind |-> "click",
                             fate |-> IF allowed THEN "pending" ELSE "reject"])
  /\ UNCHANGED <<serverVars, currentCharacter, clientHistories, recVars, statusVars, pipes>>

\* A click on the play button of a message: playMessageAudio(character,
\* messageIndex) with the selected persona; allowed tells whether the
\* browser lets play() start
PlayMessageAudio(messageIndex, allowed) ==
  /\ HasPlayButton(messageIndex)
  /\ IF /\ currentlyPlayingIndex = messageIndex
        /\ currentlyPlayingCharacter = currentCharacter
        /\ ~audioPlayer.paused
       THEN /\ audioPlayer' = [audioPlayer EXCEPT !.paused = TRUE]
            /\ playPromises' = Aborted(playPromises)
            /\ currentlyPlayingIndex' = NullIndex
            /\ currentlyPlayingCharacter' = Missing
       ELSE /\ Len(playPromises) < MaxPromises
            /\ currentlyPlayingIndex' = messageIndex
            /\ currentlyPlayingCharacter' = currentCharacter
            /\ audioPlayer' = [character |-> currentCharacter, index |-> messageIndex,
                               paused |-> ~allowed, ended |-> FALSE]
            /\ playPromises' = Append(Aborted(playPromises),
                                      [kind |-> "click",
                                       fate |-> IF allowed THEN "pending" ELSE "reject"])
  /\ UNCHANGED <<serverVars, currentCharacter, clientHistories, recVars, statusVars, pipes>>

\* Indexes of the messages of a client history
Indexes == 0..(2 * MaxCalls - 1)

\* No turn is running
NoTurn == pendingStops = 0 /\ \A i \in RSlots : pipes[i].pc = "free"

\* The user of PlaybackSpec starts a recording, and switches the persona,
\* only when no turn is running
PlaybackNext ==
  \/ NoTurn /\ StartRecording
  \/ MicGranted
  \/ StopRecording
  \/ \E i \in RSlots, stamp \in Paths :
       HandleRecordingStop(i, Spoken(sttCalls), FALSE, stamp)
  \/ \E i \in RSlots :
       TranscribeRead(i) /\ Answered(i, transcribeReq'[i].pc = "free")
         /\ UNCHANGED <<storeVars, ttsVars>>
  \/ \E i \in RSlots :
       TranscribeSucceed(i) /\ Answered(i, TRUE) /\ UNCHANGED <<storeVars, ttsVars>>
  \/ \E i \in RSlots : AfterTranscribe(i, FALSE)
  \/ \E i \in RSlots :
       RespondSucceedA(i, ReplyTo(respondReq[i].userMessage)) /\ Answered(i, TRUE)
         /\ UNCHANGED <<sttVars, ttsVars>>
  \/ \E i \in RSlots :
       RespondSucceedB(i, ReplyTo(respondReq[i].userMessage)) /\ Answered(i, TRUE)
         /\ UNCHANGED <<sttVars, ttsVars>>
  \/ \E i \in RSlots : AfterRespond(i, FALSE)
  \/ \E i \in RSlots, audio \in TtsAudios :
       TtsSucceed(i, audio) /\ Answered(i, TRUE) /\ UNCHANGED <<storeVars, sttVars>>
  \/ \E i \in RSlots, allowed \in BOOLEAN : AfterTts(i, allowed)
  \/ \E messageIndex \in Indexes, allowed \in BOOLEAN : PlayMessageAudio(messageIndex, allowed)
  \/ \E k \in 1..MaxPromises : PlayThen(k)
  \/ \E k \in 1..MaxPromises : PlayCatch(k)
  \/ AudioEnded
  \/ \E c \in Personas : NoTurn /\ SelectCharacter(c)
  \/ ClearChat

PlaybackSpec == Init /\ [][PlaybackNext]_vars

\* The playback sub-state NotPlaying
NotPlaying == /\ currentlyPlayingIndex = NullIndex
              /\ currentlyPlayingCharacter = Missing
              /\ audioPlayer.paused \/ audioPlayer.ended

\* The message of the selected persona at index m is the one tracked as
\* playing: play was invoked on it, by a click or by autoplay
Tracked(m) == currentlyPlayingIndex = m /\ currentlyPlayingCharacter = currentCharacter

\* C15 as stated: play invoked on the message on which play was invoked
\* last (the message tracked as playing) leaves the playback sub-state
\* NotPlaying: audio stopped, both tracking variables null.
C15_ToggleTwiceNotPlaying ==
  [][ \A m \in Indexes, allowed \in BOOLEAN :
        (Tracked(m) /\ PlayMessageAudio(m, allowed)) => NotPlaying' ]_vars

\* C15, amended: the second invocation leaves NotPlaying when the browser
\* let the first play() start (the element is not paused); when the first
\* play() was blocked, the second invocation loads the message again and
\* tracks it as playing.
C15_ToggleTwiceWhenStarted ==
  [][ \A m \in Indexes, allowed \in BOOLEAN :
        (Tracked(m) /\ PlayMessageAudio(m, allowed)) =>
           IF ~audioPlayer.paused
             THEN NotPlaying'
             ELSE /\ currentlyPlayingIndex' = m
                  /\ currentlyPlayingCharacter' = currentCharacter
                  /\ audioPlayer'.index = m
                  /\ audioPlayer'.paused = ~allowed ]_vars

\* C15: a second click paused the message while the play() promise of the
\* first click was still pending: nothing is tracked, the message is still
\* loaded and in the history, and the promise is aborted
C15_Witness ==
  /\ NotPlaying /\ audioPlayer.paused /\ ~audioPlayer.ended
  /\ audioPlayer.character = currentCharacter
  /\ HasPlayButton(audioPlayer.index)
  /\ playPromises = <<[kind |-> "click", fate |-> "reject"]>>
  /\ lastAlert = ""

\* C16: at most one message is playing.  When playback of a message B is
\* started, by a click or by the autoplay of a turn, while another message
\* A is tracked as playing, B is afterwards the tracked message and the
\* one loaded in the audio element, and every pending play() of A is
\* aborted: A is no longer playing.
C16_OnlyLatestPlaying ==
  [][ /\ \A m \in Indexes, allowed \in BOOLEAN :
           (currentlyPlayingIndex # NullIndex /\ ~Tracked(m) /\ PlayMessageAudio(m, allowed)) =>
              /\ currentlyPlayingIndex' = m /\ currentlyPlayingCharacter' = currentCharacter
              /\ audioPlayer'.index = m /\ audioPlayer'.character = currentCharacter
              /\ audioPlayer'.paused = ~allowed
              /\ \A k \in 1..Len(playPromises) : playPromises'[k].fate = "reject"
      /\ \A i \in RSlots, allowed \in BOOLEAN :
           (currentlyPlayingIndex # NullIndex /\ ~StageFailed(i, "tts") /\ AfterTts(i, allowed)) =>
              LET m == Len(clientHistories'[currentCharacter]) - 1
              IN /\ currentlyPlayingIndex' = m /\ currentlyPlayingCharacter' = currentCharacter
                 /\ audioPlayer'.index = m /\ audioPlayer'.character = currentCharacter
                 /\ audioPlayer'.paused = ~allowed
                 /\ \A k \in 1..Len(playPromises) : playPromises'[k].fate = "reject" ]_vars

\* C16: playback of a second message was started while the play() promise
\* of the first was pending: the second one is tracked, loaded and playing
C16_Witness ==
  /\ Len(playPromises) = 2
  /\ playPromises[1].fate = "reject" /\ playPromises[2].fate = "pending"
  /\ currentlyPlayingIndex = 3 /\ audioPlayer.index = 3
  /\ currentlyPlayingCharacter = audioPlayer.character
  /\ ~audioPlayer.paused /\ ~audioPlayer.ended

\* C17 (as claimed): selectCharacter(p) makes p the displayed persona and
\* leaves the playback sub-state NotPlaying: the audio is stopped and
\* currentlyPlayingIndex and currentlyPlayingCharacter are null.
C17_SelectResetsPlayback ==
  [][ \A p \in Personas :
        SelectCharacter(p) => (currentCharacter' = p /\ NotPlaying') ]_vars

\* C20: when the microphone is denied, no recording starts and no recorder
\* is stored, the record and stop controls and the status are as they were,
\* no turn starts, and the user is shown the notice.
C20_DeniedStaysIdle ==
  [][ MicDenied =>
        /\ mediaRecorder' = mediaRecorder
        /\ recorderState' = recorderState
        /\ recordBtnHidden' = recordBtnHidden /\ stopBtnHidden' = stopBtnHidden
        /\ statusHidden' = statusHidden /\ statusText' = statusText
        /\ pendingStops' = pendingStops /\ pipes' = pipes
        /\ lastAlert' = "Please allow microphone access" ]_vars

\* C20: the microphone was denied on the first start action: the notice is
\* shown and the controller is idle, without a recorder
C20_Witness ==
  /\ lastAlert = "Please allow microphone access"
  /\ mediaRecorder = NoRecorder /\ micPending = 0
  /\ ~recordBtnHidden /\ stopBtnHidden
  /\ \A m \in Recorders : recorderState[m] # "recording"

\* The sendToServer call in slot i goes from stage from to stage to in
\* this step: it issues the fetch of stage to
Enters(i, from, to) == pipes[i].pc = from /\ pipes'[i].pc = to

\* C19: the stages of a turn run strictly in sequence.  The fetch of
\* /api/respond is issued only by a turn whose /api/transcribe fetch was
\* answered OK, and the request that reaches the server carries the
\* returned transcription as userMessage; the fetch of /api/tts is issued
\* only by a turn whose /api/respond fetch was answered OK, and its request
\* carries the returned response as text; a handler starts only in the
\* step in which its turn enters its stage; a turn whose fetch failed ends,
\* and no request reaches the server in that step.
C19_StagesInSequence ==
  [][ \A i \in RSlots :
        /\ pipes'[i].pc = "respond" /\ pipes[i].pc # "respond" =>
             /\ pipes[i].pc = "transcribe"
             /\ pipes[i].res.state = "answered" /\ pipes[i].res.ok
             /\ respondReq'[i].pc = "awaiting" =>
                  respondReq'[i].userMessage = pipes[i].res.transcription
             /\ pipes'[i].res.state = "answered" =>
                  /\ lastRes'.endpoint = "respond"
                  /\ lastRes'.userMessage = pipes[i].res.transcription
        /\ pipes'[i].pc = "tts" /\ pipes[i].pc # "tts" =>
             /\ pipes[i].pc = "respond"
             /\ pipes[i].res.state = "answered" /\ pipes[i].res.ok
             /\ ttsReq'[i].pc = "awaiting" => ttsReq'[i].text = pipes[i].res.response
             /\ pipes'[i].res.state = "answered" =>
                  /\ lastRes'.endpoint = "tts"
                  /\ lastRes'.userMessage = pipes[i].res.response
        /\ Arrived(transcribeReq, i) => Enters(i, "free", "transcribe")
        /\ Arrived(respondReq, i) => Enters(i, "transcribe", "respond")
        /\ Arrived(ttsReq, i) => Enters(i, "respond", "tts")
        /\ \A pc \in {"transcribe", "respond", "tts"} :
             (StageFailed(i, pc) /\ pipes'[i] # pipes[i]) =>
                /\ pipes'[i] = FreePipe
                /\ transcribeReq' = transcribeReq /\ respondReq' = respondReq
                /\ ttsReq' = ttsReq /\ lastRes' = lastRes
                /\ sttCalls' = sttCalls /\ genCalls' = genCalls /\ ttsCalls' = ttsCalls ]_vars

\* C19: a turn is in its third stage: its three requests were made, one
\* after the other, and the synthesis is asked for the text of the reply
C19_Witness ==
  \E i \in RSlots :
    /\ pipes[i].pc = "tts" /\ ttsReq[i].pc = "awaiting"
    /\ ttsReq[i].text = pipes[i].response
    /\ ttsReq[i].text \in ReplyTexts
    /\ sttCalls = 1 /\ genCalls = 1 /\ ttsCalls = 1

(***************************************************************************)
(* The client's turns under fair scheduling (specification TurnSpec):      *)
(* a handler that awaits its collaborator is answered, the continuation of *)
(* a settled fetch runs, and a play() promise settles.                     *)
(***************************************************************************)
\* The steps of the turn in slot i once its fetch is issued: those of its
\* handler and the continuations of sendToServer
TurnStep(i) ==
  \/ TranscribeRead(i) /\ Answered(i, transcribeReq'[i].pc = "free")
       /\ UNCHANGED <<storeVars, ttsVars>>
  \/ TranscribeSucceed(i) /\ Answered(i, TRUE) /\ UNCHANGED <<storeVars, ttsVars>>
  \/ TranscribeFail(i) /\ Answered(i, TRUE) /\ UNCHANGED <<storeVars, ttsVars>>
  \/ \E net \in BOOLEAN : AfterTranscribe(i, net)
  \/ RespondSucceedA(i, ReplyTo(respondReq[i].userMessage)) /\ Answered(i, TRUE)
       /\ UNCHANGED <<sttVars, ttsVars>>
  \/ RespondSucceedB(i, ReplyTo(respondReq[i].userMessage)) /\ Answered(i, TRUE)
       /\ UNCHANGED <<sttVars, ttsVars>>
  \/ RespondFail(i) /\ Answered(i, TRUE) /\ UNCHANGED <<sttVars, ttsVars>>
  \/ \E net \in BOOLEAN : AfterRespond(i, net)
  \/ \E audio \in TtsAudios :
       TtsSucceed(i, audio) /\ Answered(i, TRUE) /\ UNCHANGED <<storeVars, sttVars>>
  \/ TtsFail(i) /\ Answered(i, TRUE) /\ UNCHANGED <<storeVars, sttVars>>
  \/ \E allowed \in BOOLEAN : AfterTts(i, allowed)

\* A play() promise settles
PromiseSettles == \E k \in 1..MaxPromises : PlayThen(k) \/ PlayCatch(k)

\* The turns of one persona: the user records, stops and clears the chat,
\* and never switches the persona
TurnNext ==
  \/ StartRecording
  \/ MicGranted
  \/ MicDenied
  \/ StopRecording
  \/ \E i \in RSlots, net \in BOOLEAN, stamp \in Paths :
       /\ net \/ sttCalls < MaxTranscriptions
       /\ HandleRecordingStop(i, Spoken(sttCalls), net, stamp)
  \/ \E i \in RSlots : TurnStep(i)
  \/ PromiseSettles
  \/ AudioEnded
  \/ ClearChat

TurnSpec ==
  /\ Init /\ [][TurnNext]_vars
  /\ \A i \in RSlots : WF_vars(TurnStep(i))
  /\ WF_vars(PromiseSettles)

\* The status shows one of the texts of a running turn
ProgressShown ==
  ~statusHidden /\ statusText.kind \in {"transcribing", "thinking", "generating voice"}

\* No sendToServer call is running, and no autoplay awaits its play()
TurnsEnded ==
  /\ \A i \in RSlots : pipes[i].pc = "free"
  /\ \A k \in 1..Len(playPromises) : playPromises[k].kind # "auto"

\* C18: every sendToServer call ends: once its fetch is settled it goes on
\* or ends, and a call that is running is eventually over, by success or by
\* the failure of a stage.  The step that takes up a failed fetch shows the
\* error text, shows the record control and hides the stop control.  With
\* no call running and no autoplay pending the status shows no transcribing,
\* thinking or generating-voice text, and such a text never stays for ever.
C18_TurnReturnsToIdle ==
  /\ [][ \A i \in RSlots : \A pc \in {"transcribe", "respond", "tts"} :
           (StageFailed(i, pc) /\ pipes'[i] # pipes[i]) =>
              /\ pipes'[i] = FreePipe
              /\ ~statusHidden' /\ statusText'.kind = "error"
              /\ ~recordBtnHidden' /\ stopBtnHidden' ]_vars
  /\ [](TurnsEnded => ~ProgressShown)
  /\ \A i \in RSlots : (pipes[i].pc # "free") ~> (pipes[i].pc = "free")
  /\ ProgressShown ~> ~ProgressShown

\* C18: a turn failed at its second stage while a new recording was under
\* way: the status shows the error, the record control is shown and the
\* stop control hidden, and no call is running
C18_Witness ==
  /\ TurnsEnded
  /\ ~statusHidden /\ statusText = Status("error", "Response generation failed")
  /\ ~recordBtnHidden /\ stopBtnHidden
  /\ lastRes.endpoint = "respond" /\ lastRes.status = 500

(***************************************************************************)
(* The recorder (specification RecorderSpec): the user clicks the record   *)
(* control again while the browser still asks for the microphone, and      *)
(* every fetch of a turn is rejected by the network.                       *)
(***************************************************************************)
RecorderNext ==
  \/ StartRecordingWith(MaxMicRequests)
  \/ MicGranted
  \/ MicDenied
  \/ StopRecording
  \/ \E i \in RSlots : HandleRecordingStop(i, Spoken(sttCalls), TRUE, 0)
  \/ \E i \in RSlots : AfterTranscribe(i, FALSE)

RecorderSpec == Init /\ [][RecorderNext]_vars

\* C21 (as claimed): once a recorder is stored, no step requests the
\* microphone again and the stored recorder is never replaced or released.
C21_RecorderAcquiredOnce ==
  [][ mediaRecorder # NoRecorder =>
        (mediaRecorder' = mediaRecorder /\ micPending' <= micPending) ]_vars

(***************************************************************************)
(* One server process with all its endpoints (specification ServerSpec).   *)
(***************************************************************************)
ServerNext ==
  \/ \E r \in RSlots, ch \in {"joey", "constructor", Missing} :
       /\ NewSlot(r)
       /\ RespondArriveA(r, "hello", ch) \/ RespondArriveB(r, "hello", ch)
       /\ UNCHANGED <<cfgVars, sttVars, ttsVars, clientVars>>
  \/ \E r \in RSlots :
       /\ RespondSucceedA(r, "fact") \/ RespondSucceedB(r, "fact")
       /\ UNCHANGED <<cfgVars, sttVars, ttsVars, clientVars>>
  \/ \E r \in RSlots : RespondFail(r) /\ UNCHANGED <<cfgVars, sttVars, ttsVars, clientVars>>
  \/ \E ch \in {"joey", "unknown"} :
       ClearHistory(ch) /\ UNCHANGED <<cfgVars, sttVars, ttsVars, clientVars>>
  \/ \E t \in RSlots, file \in {"audioHello", NoFile} :
       /\ NewTranscribeSlot(t)
       /\ TranscribeArrive(t, file, 0)
       /\ UNCHANGED <<cfgVars, storeVars, ttsVars, clientVars>>
  \/ \E t \in RSlots :
       /\ TranscribeRead(t) \/ TranscribeSucceed(t) \/ TranscribeFail(t)
       /\ UNCHANGED <<cfgVars, storeVars, ttsVars, clientVars>>
  \/ \E t \in RSlots, ch \in {"joey", "unknown", Missing} :
       /\ NewTtsSlot(t)
       /\ TtsArrive(t, "fact", ch)
       /\ UNCHANGED <<cfgVars, storeVars, sttVars, clientVars>>
  \/ \E t \in RSlots :
       /\ TtsSucceed(t, "bXAz") \/ TtsFail(t)
       /\ UNCHANGED <<cfgVars, storeVars, sttVars, clientVars>>
  \/ GetCharacters /\ UNCHANGED <<storeVars, sttVars, ttsVars, clientVars>>

ServerSpec == Init /\ [][ServerNext]_vars

\* C22: after any sequence of requests every persona id resolves to the
\* name, source, systemPrompt and greeting the registry was defined with,
\* and the registry has no other entry.
C22_RegistryImmutable ==
  /\ DOMAIN characters = Personas
  /\ \A p \in Personas : characters[p] = Registry[p]

\* C22: requests to every endpoint were handled, a history was written,
\* and /api/characters lists the personas as they were defined
C22_Witness ==
  /\ lastRes.endpoint = "characters"
  /\ Len(lastRes.charList) = 3
  /\ \A n \in 1..3 : lastRes.charList[n].name = Registry[lastRes.charList[n].id].name
  /\ genCalls > 0 /\ sttCalls > 0 /\ ttsCalls > 0
  /\ \E p \in Personas : Len(Hist(p)) > 0

\* The controller is recording: a recorder is in state recording
Recording == \E m \in Recorders : recorderState[m] = "recording"

\* The turns in flight: stops whose onstop has not run yet, and
\* sendToServer calls that have not finished
TurnsInFlight == pendingStops + Cardinality({i \in RSlots : pipes[i].pc # "free"})

\* C23 (as claimed): the controller is in exactly one of Idle, Recording
\* and Processing: it never records while a turn is being processed, a
\* recording starts only when no turn is being processed, and at most one
\* turn is in flight.
C23_OneTurnAtATime ==
  /\ ~(Recording /\ TurnsInFlight > 0)
  /\ TurnsInFlight <= 1

\* The history q is a concatenation of (user, assistant) pairs
Paired(q) ==
  /\ Len(q) % 2 = 0
  /\ \A n \in 1..Len(q) : q[n].role = IF n % 2 = 1 THEN "user" ELSE "assistant"

\* C24: in variant A every persona's history is at every moment a
\* concatenation of (user, assistant) pairs, and every step that changes a
\* persona's history either empties it or appends one pair, made of the
\* user message of one request that awaited its call and of the reply
\* that request is answered with.
C24_WholePairsInA ==
  /\ [](variant = "A" => \A p \in Personas : Paired(Hist(p)))
  /\ [][ variant = "A" =>
           \A p \in Personas :
             chatHistories'[p] # chatHistories[p] =>
               \/ chatHistories'[p].items = <<>>
               \/ \E r \in RSlots :
                    /\ respondReq[r].pc = "awaiting" /\ respondReq[r].character = p
                    /\ respondReq'[r].pc = "free"
                    /\ lastRes'.status = 200
                    /\ lastRes'.userMessage = respondReq[r].userMessage
                    /\ chatHistories'[p].items =
                         Hist(p) \o <<Msg("user", respondReq[r].userMessage),
                                      Msg("assistant", lastRes'.response)>> ]_vars

\* C24: in variant A two requests for one persona overlapped and both
\* succeeded: the one answered last appended its pair after the other's
C24_Witness ==
  /\ variant = "A"
  /\ lastRes.endpoint = "respond" /\ lastRes.status = 200 /\ lastRes.overlapped
  /\ lastRes.character \in Personas
  /\ Len(Hist(lastRes.character)) = 4
  /\ Paired(Hist(lastRes.character))

\* The (role, text) entries of a client history: the client's sender
\* 'character' is the backend's role 'assistant'
ClientEntries(q) ==
  [n \in 1..Len(q) |->
     Msg(IF q[n].sender = "character" THEN "assistant" ELSE q[n].sender, q[n].message)]

\* The controller is Idle and no turn is in flight
Idle == ~Recording /\ micPending = 0 /\ TurnsInFlight = 0

\* C25 (as claimed): whenever the client is Idle with no turn in flight,
\* the client's history of every persona has the same (role, text) entries
\* as the backend history of that persona.
C25_ClientMirrorsBackend ==
  Idle => \A p \in Personas : ClientEntries(clientHistories[p]) = Hist(p)

\* C26 (as claimed): the stages of a turn all concern one persona, also
\* when selectCharacter is invoked while the turn is processed: the persona
\* that /api/tts is asked to speak a reply for is the persona that
\* /api/respond generated that reply for, and a reply in a persona's client
\* history was generated for that persona.
C26_OnePersonaPerTurn ==
  /\ \A i \in RSlots :
       (pipes[i].pc = "tts" /\ ttsReq[i].pc = "awaiting") =>
          HasAssistant(Hist(ttsReq[i].character), ttsReq[i].text)
  /\ \A p \in Personas : \A n \in 1..Len(clientHistories[p]) :
       clientHistories[p][n].sender = "character" =>
          HasAssistant(Hist(p), clientHistories[p][n].message)

\* C27 (as claimed): a /api/respond request for a persona found entries in
\* the history when it arrived and finds the history empty when its call
\* completes (a /api/clear-history completed in between, and no later
\* request has added anything); after it is answered the history holds no
\* entry of its turn: it is still empty.
C27_ClearedTurnLeavesNothing ==
  [][ \A r \in RSlots :
        (/\ Succeeds(r)
         /\ respondReq[r].character \in Personas
         /\ Len(respondReq[r].histAtArrival) > 0
         /\ Hist(respondReq[r].character) = <<>>) =>
           chatHistories'[respondReq[r].character].items = <<>> ]_vars

\* C28 (as claimed): overlapping /api/transcribe requests do not affect
\* one another: no two handlers in flight use the same temporary file, so
\* that each call reads the bytes its own request wrote, and a handler
\* whose transcription call succeeded answers 200 with the transcription
\* of what it sent.
C28_TranscribesIsolated ==
  /\ [](\A s \in RSlots : \A t \in RSlots \ {s} :
          (transcribeReq[s].pc # "free" /\ transcribeReq[t].pc # "free") =>
             transcribeReq[s].path # transcribeReq[t].path)
  /\ [][ \A t \in RSlots :
           TranscribeSucceed(t) =>
             /\ lastRes'.status = 200
             /\ lastRes'.transcription = Whisper(transcribeReq[t].sent) ]_vars

\* C29 (as claimed): once a /api/transcribe request that wrote its
\* temporary file has been answered, with 200 or with 500, that file no
\* longer exists.
C29_TempFileRemoved ==
  (lastRes.endpoint = "transcribe" /\ lastRes.called) => ~lastRes.tempFileLeft

\* The audio element is playing the message it has loaded
Playing == audioPlayer.index # NullIndex /\ ~audioPlayer.paused /\ ~audioPlayer.ended

\* The tracked playback state agrees with the audio element: while the
\* element plays a message, currentlyPlayingCharacter and
\* currentlyPlayingIndex identify that message, and while both are null the
\* element is not playing
Agrees ==
  /\ Playing => /\ currentlyPlayingIndex = audioPlayer.index
                /\ currentlyPlayingCharacter = audioPlayer.character
  /\ (currentlyPlayingIndex = NullIndex /\ currentlyPlayingCharacter = Missing) => ~Playing

\* C30 (as claimed): the tracked playback state agrees with the audio
\* element also when a second playback was started before the play()
\* promise of the first had settled and that promise then rejects: the
\* step in which a rejecting play() promise (blocked, or aborted by a later
\* playback) is settled leaves the tracked state in agreement with the
\* element.
C30_TrackingAgrees ==
  [][ (\E k \in 1..Len(playPromises) : playPromises[k].fate = "reject" /\ PlayCatch(k))
        => Agrees' ]_vars

\* C31: currentlyPlayingIndex and currentlyPlayingCharacter are both null
\* or both non-null, and when they are non-null the client history of that
\* persona has an entry at that index, which is a character message with
\* audio.
C31_TrackedMessageExists ==
  /\ (currentlyPlayingIndex = NullIndex) <=> (currentlyPlayingCharacter = Missing)
  /\ currentlyPlayingIndex # NullIndex =>
       /\ currentlyPlayingCharacter \in Personas
       /\ currentlyPlayingIndex \in 0..(Len(clientHistories[currentlyPlayingCharacter]) - 1)
       /\ LET m == clientHistories[currentlyPlayingCharacter][currentlyPlayingIndex + 1]
          IN m.sender = "character" /\ m.audio # ""

\* C31: a message of one persona is tracked as playing after the user has
\* switched to another persona, whose chat is empty
C31_Witness ==
  /\ currentlyPlayingIndex # NullIndex
  /\ currentlyPlayingCharacter \in Personas \ {currentCharacter}
  /\ clientHistories[currentCharacter] = <<>>
  /\ Len(clientHistories[currentlyPlayingCharacter]) > currentlyPlayingIndex
  /\ statusHidden

====
